---- MODULE Spec2Model ----
(***************************************************************************)
(* Verification model of the zaptec-solis mobile client:                   *)
(*   - the Settings Store   (src/src/services/settingsService.ts)          *)
(*   - the API Client       (src/src/services/apiService.ts)               *)
(*   - the HomeScreen loads (src/src/screens/HomeScreen.tsx)               *)
(*                                                                         *)
(* JavaScript strings are modelled as sequences of one-character strings,  *)
(* so that composing and parsing a URL are computations on characters.     *)
(* `new URL(..)` follows the WHATWG URL Standard for http/https inputs;    *)
(* axios follows its header flattening rule (common, method, then the      *)
(* instance's own top-level headers, later entries winning).               *)
(***************************************************************************)
EXTENDS Integers, Sequences, FiniteSets, TLC

VARIABLES
  env,        \* build-time configuration (@env and expo extra), fixed per run
  settings,   \* SettingsService.settings (in-memory record)
  stored,     \* AsyncStorage item under STORAGE_KEYS.SETTINGS
  calls,      \* Settings Store calls in flight, one per slot
  last,       \* the Settings Store call that settled most recently
  overlap,    \* whether callers start a call while another is in flight
  held,       \* objects callers hold, returned by getSettings / getApiConfig
  ncalls,     \* Settings Store calls made so far
  config,     \* ApiService.config
  axios,      \* ApiService.axiosInstance.defaults
  configs,    \* configurations handed to the API Client, in order
  requests,   \* requests the API Client dispatched, in order
  replies,    \* per request: what its caller got back, or that none came yet
  objects,    \* configuration objects the caller holds (returned by getConfig)
  alias,      \* which of them ApiService.config refers to; 0 when none of them
  home,       \* HomeScreen component state
  loads,      \* HomeScreen loads in flight
  server,     \* backend clock and latest stored inverter snapshot
  rt,         \* compose/parse round trip under test
  zscreen,    \* ZaptecScreen: the current-setting modal and its control flag
  sscreen,    \* SettingsScreen: the IP configuration modal and its handler
  charts      \* ChartsScreen: period/date, refresh flag, hooks, fetches in flight

vars == <<env, settings, stored, calls, last, overlap, held, ncalls, config, axios,
          configs, requests, replies, objects, alias, home, loads, server, rt, zscreen, sscreen,
          charts>>

settingsVars == <<settings, stored, calls, last, overlap, held, ncalls>>
apiVars == <<config, axios, configs, requests, replies, objects, alias>>
homeVars == <<home, loads, server>>
screenVars == <<zscreen, sscreen, charts>>
notSettings == <<env, overlap, apiVars, homeVars, rt, screenVars>>
notApi == <<env, settingsVars, homeVars, rt, screenVars>>
notHome == <<env, settingsVars, apiVars, rt, screenVars>>
notRt == <<env, settingsVars, apiVars, homeVars, screenVars>>
notZaptec == <<env, settingsVars, apiVars, homeVars, rt, sscreen, charts>>
notCharts == <<env, settingsVars, apiVars, homeVars, rt, zscreen, sscreen>>

----------------------------------------------------------------------------
(* Characters and numbers *)

Digits == <<"0", "1", "2", "3", "4", "5", "6", "7", "8", "9">>

IsDigit(c) == \E i \in 1..10 : Digits[i] = c

DigitVal(c) == (CHOOSE i \in 1..10 : Digits[i] = c) - 1

AllDigits(s) == \A i \in 1..Len(s) : IsDigit(s[i])

\* String(n) for a non-negative integer, as a template literal prints it
RECURSIVE Dec(_)
Dec(n) == IF n < 10 THEN <<Digits[n + 1]>>
          ELSE Dec(n \div 10) \o <<Digits[(n % 10) + 1]>>

\* `${port}` for an integer port
NumberToString(n) == IF n < 0 THEN <<"-">> \o Dec(0 - n) ELSE Dec(n)

\* value of a digit string in the given radix
RECURSIVE DigitsValue(_, _)
DigitsValue(s, radix) ==
  IF s = <<>> THEN 0
  ELSE DigitsValue(SubSeq(s, 1, Len(s) - 1), radix) * radix + DigitVal(s[Len(s)])

\* a JavaScript number that may be NaN: <<>> is NaN, <<n>> the number n
NaN == <<>>

\* parseInt(s): the longest leading run of decimal digits, NaN when there is none
\* (inputs here carry no sign and no white space)
RECURSIVE LeadingDigits(_)
LeadingDigits(s) ==
  IF s = <<>> \/ ~IsDigit(Head(s)) THEN <<>>
  ELSE <<Head(s)>> \o LeadingDigits(Tail(s))

ParseInt(s) == IF LeadingDigits(s) = <<>> THEN NaN
               ELSE <<DigitsValue(LeadingDigits(s), 10)>>

\* the parts of s between occurrences of the character c
RECURSIVE Split(_, _)
Split(s, c) ==
  IF \A i \in 1..Len(s) : s[i] # c THEN <<s>>
  ELSE LET k == CHOOSE i \in 1..Len(s) : s[i] = c /\ \A j \in 1..(i - 1) : s[j] # c
       IN  <<SubSeq(s, 1, k - 1)>> \o Split(SubSeq(s, k + 1, Len(s)), c)

RECURSIVE Join(_, _)
Join(parts, c) ==
  IF Len(parts) = 0 THEN <<>>
  ELSE IF Len(parts) = 1 THEN parts[1]
  ELSE parts[1] \o <<c>> \o Join(Tail(parts), c)

Http == <<"h", "t", "t", "p">>
Https == <<"h", "t", "t", "p", "s">>
Localhost == <<"l", "o", "c", "a", "l", "h", "o", "s", "t">>
TrueStr == <<"t", "r", "u", "e">>
FalseStr == <<"f", "a", "l", "s", "e">>

Dotted(a, b, c, d) == Join(<<Dec(a), Dec(b), Dec(c), Dec(d)>>, ".")

\* "<scheme>://<host>:<port>"
UrlText(scheme, host, port) ==
  scheme \o <<":", "/", "/">> \o host \o <<":">> \o NumberToString(port)

LoopbackUrl == UrlText(Http, Localhost, 3000)
FallbackUrl == UrlText(Http, Dotted(192, 168, 0, 108), 3000)
FallbackIp == Dotted(192, 168, 0, 108)
FallbackPort == 3000

----------------------------------------------------------------------------
(* SettingsService: IP validation and URL helpers *)

\* one alternative of the regular expression: 25[0-5]|2[0-4][0-9]|[01]?[0-9][0-9]?
OctetMatches(p) ==
  /\ Len(p) \in 1..3
  /\ AllDigits(p)
  /\ Len(p) = 3 =>
       \/ p[1] \in {"0", "1"}
       \/ p[1] = "2" /\ p[2] \in {"0", "1", "2", "3", "4"}
       \/ p[1] = "2" /\ p[2] = "5" /\ p[3] \in {"0", "1", "2", "3", "4", "5"}

\* ^(?:(?:octet)\.){3}(?:octet)$
IpRegexTest(ip) ==
  LET parts == Split(ip, ".")
  IN  Len(parts) = 4 /\ \A i \in 1..4 : OctetMatches(parts[i])

\* the validation with the range alternatives dropped: [0-9]{1,3} per octet
isValidIpAddressNoRange(ip) ==
  \/ LET parts == Split(ip, ".")
     IN  Len(parts) = 4 /\ \A i \in 1..4 : Len(parts[i]) \in 1..3 /\ AllDigits(parts[i])
  \/ ip = Localhost

isValidIpAddress(ip) == IpRegexTest(ip) \/ ip = Localhost

\* the composition with the useHttps flag ignored
ComposeBackendUrlHttpOnly(useHttps, ip, port) == UrlText(Http, ip, port)

\* const baseUrl = `${protocol}://${ip}:${port}`
ComposeBackendUrl(useHttps, ip, port) ==
  UrlText(IF useHttps THEN Https ELSE Http, ip, port)

\* characters a host of the modelled inputs may hold; any other character in
\* the host position is a forbidden host code point
HostChars == {Digits[i] : i \in 1..10} \cup
             {"a", "b", "c", "d", "e", "f", "g", "h", "i", "j", "k", "l", "m",
              "n", "o", "p", "q", "r", "s", "t", "u", "v", "w", "x", "y", "z",
              "-", "."}

Failure == [ok |-> FALSE]

\* one part of a dotted host as the IPv4 number parser reads it: a leading 0
\* makes it octal; -1 is a validation failure
Ipv4Number(p) ==
  IF p = <<>> \/ ~AllDigits(p) THEN -1
  ELSE IF Len(p) >= 2 /\ p[1] = "0"
       THEN IF \E i \in 1..Len(p) : p[i] \in {"8", "9"} THEN -1
            ELSE DigitsValue(p, 8)
       ELSE DigitsValue(p, 10)

RECURSIVE Pow256(_)
Pow256(n) == IF n = 0 THEN 1 ELSE 256 * Pow256(n - 1)

\* the host parser for a special scheme: failure, a domain kept as written, or
\* an IPv4 address in canonical dotted-decimal form
ParseHost(h) ==
  IF h = <<>> \/ \E i \in 1..Len(h) : h[i] \notin HostChars THEN Failure
  ELSE
    LET raw == Split(h, ".")
        parts == IF Len(raw) > 1 /\ raw[Len(raw)] = <<>>
                   THEN SubSeq(raw, 1, Len(raw) - 1) ELSE raw
        lastp == parts[Len(parts)]
        n == Len(parts)
    IN  IF lastp = <<>> \/ ~AllDigits(lastp)
          THEN [ok |-> TRUE, hostname |-> h]
        ELSE IF n > 4 \/ \E i \in 1..n : Ipv4Number(parts[i]) < 0 THEN Failure
        ELSE IF \E i \in 1..(n - 1) : Ipv4Number(parts[i]) > 255 THEN Failure
        ELSE IF n > 1 /\ Ipv4Number(lastp) >= Pow256(5 - n) THEN Failure
        ELSE LET v == Ipv4Number(lastp)
                 \* the last number fills the 5 - n low bytes of the address
                 tail == <<v \div Pow256(3), (v \div Pow256(2)) % 256,
                           (v \div 256) % 256, v % 256>>
                 octet(i) == IF i < n THEN Ipv4Number(parts[i]) ELSE tail[i]
             IN  [ok |-> TRUE,
                  hostname |-> Dotted(octet(1), octet(2), octet(3), octet(4))]

DefaultPort(scheme) == IF scheme = Https THEN 443 ELSE 80

Letters == HostChars \ ({Digits[i] : i \in 1..10} \cup {"-", "."})

\* the scheme of a URL text: a letter, then letters, digits, "+", "-" or ".",
\* up to the first ":"; <<>> when the text starts with no scheme
UrlScheme(url) ==
  LET bySch == Split(url, ":")
      scheme == bySch[1]
  IN  IF /\ Len(bySch) >= 2 /\ scheme # <<>> /\ scheme[1] \in Letters
         /\ \A i \in 1..Len(scheme) : scheme[i] \in HostChars \cup {"+"}
        THEN scheme ELSE <<>>

\* new URL(url): [ok, hostname, port] with port the serialised port ("" when
\* absent or the scheme's default). A text without a scheme is a parse failure
\* (TypeError, no base URL being given); a scheme other than http(s) is
\* followed by an opaque path in the inputs of the model, so the URL parses
\* with an empty host and port
ParseUrl(url) ==
  LET \* the slashes that follow "scheme:"
      Lead(rest) == CHOOSE k \in 0..Len(rest) :
                      /\ \A i \in 1..k : rest[i] = "/"
                      /\ k < Len(rest) => rest[k + 1] # "/"
      \* the authority ends at the first "/", "?" or "#"
      Authority(afterSl) ==
        LET stops == {i \in 1..Len(afterSl) : afterSl[i] \in {"/", "?", "#"}}
        IN  SubSeq(afterSl, 1, IF stops = {} THEN Len(afterSl)
                               ELSE (CHOOSE i \in stops : \A j \in stops : i <= j) - 1)
      \* the port follows the last ":" of the authority
      Cut(authority) ==
        LET colons == {i \in 1..Len(authority) : authority[i] = ":"}
        IN  IF colons = {} THEN Len(authority) + 1
            ELSE CHOOSE i \in colons : \A j \in colons : j <= i
      Parsed(scheme, host, portText) ==
        IF ~host.ok THEN Failure
        ELSE IF ~AllDigits(portText) THEN Failure
        ELSE IF portText = <<>> THEN [ok |-> TRUE, hostname |-> host.hostname, port |-> <<>>]
        ELSE IF DigitsValue(portText, 10) > 65535 THEN Failure
        ELSE [ok |-> TRUE, hostname |-> host.hostname,
              port |-> IF DigitsValue(portText, 10) = DefaultPort(scheme) THEN <<>>
                       ELSE Dec(DigitsValue(portText, 10))]
      HostAndPort(scheme, authority, cut) ==
        Parsed(scheme, ParseHost(SubSeq(authority, 1, cut - 1)),
               SubSeq(authority, cut + 1, Len(authority)))
      Special(scheme, rest) ==
        LET authority == Authority(SubSeq(rest, Lead(rest) + 1, Len(rest)))
        IN  HostAndPort(scheme, authority, Cut(authority))
      scheme == UrlScheme(url)
  IN  IF scheme = <<>> THEN Failure
      ELSE IF scheme \notin {Http, Https}
        THEN [ok |-> TRUE, hostname |-> <<>>, port |-> <<>>]
      ELSE Special(scheme, SubSeq(url, Len(scheme) + 2, Len(url)))

\* x || 3000 for x = parseInt(..): NaN and 0 are falsy
OrDefaultPort(x) == IF x = NaN THEN FallbackPort ELSE IF x[1] = 0 THEN FallbackPort ELSE x[1]

\* parseBackendUrl without its try / catch: the TypeError of new URL escapes
parseBackendUrlUncaught(url) ==
  LET urlObj == ParseUrl(url)
  IN  IF urlObj.ok
        THEN [ip |-> urlObj.hostname, port |-> OrDefaultPort(ParseInt(urlObj.port))]
        ELSE [threw |-> "TypeError"]

parseBackendUrl(url) ==
  LET urlObj == ParseUrl(url)
  IN  IF urlObj.ok
        THEN [ip |-> urlObj.hostname, port |-> OrDefaultPort(ParseInt(urlObj.port))]
        ELSE [ip |-> FallbackIp, port |-> FallbackPort]


----------------------------------------------------------------------------
(* Build-time configuration and computed defaults *)

EnvKey == <<"e", "k">>
CustomKey == <<"c", "k">>
ServerUrl == UrlText(Http, Dotted(10, 0, 0, 2), 3000)
ExtraUrl == UrlText(Http, Dotted(10, 0, 0, 3), 3000)

NoExtra == [SIMULATION_MODE |-> <<>>, API_BASE_URL |-> <<>>, API_TIMEOUT |-> <<>>,
            API_USE_HTTPS |-> <<>>, API_KEY |-> <<>>]

EnvUnset == [SIMULATION_MODE |-> <<>>, API_BASE_URL |-> <<>>, API_TIMEOUT |-> <<>>,
             API_USE_HTTPS |-> <<>>, API_KEY |-> <<>>, extra |-> NoExtra]

\* the builds the model runs: nothing set; simulation build; a configured
\* https build with a key; an app.json build (values only in expo extra)
Envs ==
  { EnvUnset,
    [EnvUnset EXCEPT !.SIMULATION_MODE = TrueStr],
    [EnvUnset EXCEPT !.API_BASE_URL = ServerUrl, !.API_USE_HTTPS = TrueStr,
                     !.API_KEY = EnvKey, !.SIMULATION_MODE = FalseStr],
    [EnvUnset EXCEPT !.extra = [NoExtra EXCEPT !.API_BASE_URL = ExtraUrl]] }

\* envVar || Constants.expoConfig?.extra?.[extraKey] || fallback
getEnvVar(e, key, fallback) ==
  IF e[key] # <<>> THEN e[key]
  ELSE IF e.extra[key] # <<>> THEN e.extra[key]
  ELSE fallback

getDefaultApiConfig(e) ==
  LET simulationMode == getEnvVar(e, "SIMULATION_MODE", FalseStr) = TrueStr
  IN  [baseUrl |-> IF simulationMode THEN LoopbackUrl
                   ELSE getEnvVar(e, "API_BASE_URL", FallbackUrl),
       timeout |-> ParseInt(getEnvVar(e, "API_TIMEOUT", Dec(10000)))[1],
       useHttps |-> getEnvVar(e, "API_USE_HTTPS", FalseStr) = TrueStr,
       simulationMode |-> simulationMode,
       apiKey |-> getEnvVar(e, "API_KEY", <<>>)]

getDefaultSettings(e) ==
  [api |-> getDefaultApiConfig(e),
   refreshInterval |-> 15000,
   theme |-> "light",
   notificationsEnabled |-> TRUE,
   units |-> "metric",
   language |-> "fr",
   simulationMode |-> getEnvVar(e, "SIMULATION_MODE", FalseStr) = TrueStr]

\* { ...a, ...b }
Merge(a, b) ==
  [k \in DOMAIN a \cup DOMAIN b |-> IF k \in DOMAIN b THEN b[k] ELSE a[k]]

----------------------------------------------------------------------------
(* AsyncStorage item under STORAGE_KEYS.SETTINGS *)

Missing == [kind |-> "missing"]
Corrupt == [kind |-> "corrupt"]

\* JSON.stringify(this.settings)
JSONStringify(v) == [kind |-> "json", value |-> v]

\* a record written by an earlier run of the app with a custom backend, and
\* one written by an older version whose api object had fewer fields
CustomRecord(e) ==
  [getDefaultSettings(e) EXCEPT
     !.api = [getDefaultApiConfig(e) EXCEPT
                !.baseUrl = UrlText(Http, Dotted(192, 168, 1, 50), 8080),
                !.apiKey = CustomKey]]

LegacyRecord ==
  [api |-> [baseUrl |-> UrlText(Http, Dotted(192, 168, 1, 50), 8080),
            timeout |-> 10000, useHttps |-> FALSE],
   theme |-> "dark"]

InitialItems(e) ==
  {Missing, Corrupt, JSONStringify(CustomRecord(e)), JSONStringify(LegacyRecord)}


----------------------------------------------------------------------------
(* Settings Store: calls in flight *)

MaxInFlight == 2
MaxCalls == 3
Slots == 1..MaxInFlight

Idle == [op |-> "idle"]
NoLocals == [none |-> TRUE]

NoneInFlight == \A s \in Slots : calls[s] = Idle

\* a call takes the first free slot; callers that await every call (overlap
\* FALSE, as the screens do behind isLoading) start one only when none is in flight
MayCall(s) ==
  /\ calls[s] = Idle
  /\ \A t \in Slots : t < s => calls[t] # Idle
  /\ ~overlap => NoneInFlight
  /\ ncalls < MaxCalls

\* inputs of the calls
GoodIp == Dotted(192, 168, 1, 50)
BadOctetIp == Dotted(999, 1, 1, 1)
NotAnIp == <<"n", "o", "t", "-", "a", "n", "-", "i", "p">>
CallIps == {GoodIp, Localhost, BadOctetIp}
CallPorts == {8080}
ApiPartials == {[useHttps |-> TRUE]}
SettingsPartials == {[theme |-> "dark"]}

\* getApiConfig(): { ...this.settings.api }
getApiConfig(st) == st.api

\* this.settings = { ...this.settings, ...settings }
SavedSettings(st, partial) == Merge(st, partial)

\* an update that replaces the api object by the partial one
ApiUpdateReplaces(st, apiConfig) == [api |-> apiConfig]

\* updateApiConfig's argument to saveSettings: { api: { ...this.settings.api, ...apiConfig } }
ApiUpdate(st, apiConfig) == [api |-> Merge(st.api, apiConfig)]

\* API_BASE_URL || "http://192.168.0.108:3000" (toggleSimulationMode reads @env only)
EnvBaseUrlOrFallback(e) == IF e.API_BASE_URL # <<>> THEN e.API_BASE_URL ELSE FallbackUrl

\* toggleSimulationMode's baseUrl for the new flag
ToggleBaseUrl(e, simulationMode) ==
  IF simulationMode THEN LoopbackUrl ELSE EnvBaseUrlOrFallback(e)

\* a removeItem that leaves the record in place
RemoveItemKeeps(item) == item

\* what AsyncStorage holds after removeItem / setItem
RemoveItem(item) == Missing
SetItem(item, value) == value

\* the record of a call that settled: its outcome, what it returned, what the
\* state was when it was called and whether memory and storage differ from it,
\* the item a getItem read, and the call that settled before it
Settled(c, outcome, ret, st, item) ==
  [op |-> c.op, args |-> c.args, outcome |-> outcome, ret |-> ret,
   preUrl |-> c.pre.api.baseUrl,
   preUseHttps |-> "useHttps" \in DOMAIN c.pre.api /\ c.pre.api.useHttps,
   preSimulationMode |-> c.pre.simulationMode,
   memorySame |-> st = c.pre, storedSame |-> item = c.preStored,
   wrote |-> c.wrote, read |-> c.read, writeFailed |-> c.writeFailed,
   prev |-> [op |-> last.op, outcome |-> last.outcome, preUrl |-> last.preUrl]]

NewCall(op, args) ==
  [op |-> op, pc |-> "start", args |-> args, item |-> Missing, pre |-> settings,
   preStored |-> stored, wrote |-> FALSE, read |-> "none", writeFailed |-> FALSE,
   loc |-> NoLocals]

\* saveSettings up to its await: merge in memory, then AsyncStorage.setItem is issued
\* objects held by callers once this.settings.api is a new object: none of
\* them shares it any more
Unshared(h) == [i \in DOMAIN h |-> [h[i] EXCEPT !.shares = FALSE]]

SaveIssue(s, c, partial) ==
  /\ settings' = SavedSettings(settings, partial)
  /\ held' = IF "api" \in DOMAIN partial THEN Unshared(held) ELSE held
  /\ calls' = [calls EXCEPT ![s] = [c EXCEPT !.pc = "setItem", !.wrote = TRUE,
                                            !.item = JSONStringify(settings')]]

CallLoadSettings(s) ==
  /\ MayCall(s)
  /\ calls' = [calls EXCEPT ![s] = [NewCall("loadSettings", NoLocals) EXCEPT !.pc = "getItem"]]
  /\ UNCHANGED <<settings, stored, last, held>>
  /\ UNCHANGED notSettings
  /\ ncalls' = ncalls + 1

CallSaveSettings(s, partial) ==
  /\ MayCall(s)
  /\ SaveIssue(s, NewCall("saveSettings", partial), partial)
  /\ UNCHANGED <<stored, last>>
  /\ UNCHANGED notSettings
  /\ ncalls' = ncalls + 1

CallUpdateApiConfig(s, apiConfig) ==
  /\ MayCall(s)
  /\ SaveIssue(s, NewCall("updateApiConfig", apiConfig), ApiUpdate(settings, apiConfig))
  /\ UNCHANGED <<stored, last>>
  /\ UNCHANGED notSettings
  /\ ncalls' = ncalls + 1

CallSetCustomBackendUrl(s, ip, port) ==
  /\ MayCall(s)
  /\ LET c == NewCall("setCustomBackendUrl", [ip |-> ip, port |-> port])
         useHttps == "useHttps" \in DOMAIN settings.api /\ settings.api.useHttps
     IN  IF ~isValidIpAddress(ip)
           THEN /\ last' = Settled(c, "rejected", "Adresse IP invalide", settings, stored)
                /\ UNCHANGED <<settings, stored, calls, held>>
           ELSE /\ SaveIssue(s, c, ApiUpdate(settings,
                       [baseUrl |-> ComposeBackendUrl(useHttps, ip, port)]))
                /\ UNCHANGED <<stored, last>>
  /\ UNCHANGED notSettings
  /\ ncalls' = ncalls + 1

CallResetToDefaultUrl(s) ==
  /\ MayCall(s)
  /\ SaveIssue(s, NewCall("resetToDefaultUrl", NoLocals),
               ApiUpdate(settings, [baseUrl |-> getDefaultApiConfig(env).baseUrl]))
  /\ UNCHANGED <<stored, last>>
  /\ UNCHANGED notSettings
  /\ ncalls' = ncalls + 1

CallSetCustomApiKey(s, apiKey) ==
  /\ MayCall(s)
  /\ SaveIssue(s, NewCall("setCustomApiKey", [apiKey |-> apiKey]),
               ApiUpdate(settings, [apiKey |-> apiKey]))
  /\ UNCHANGED <<stored, last>>
  /\ UNCHANGED notSettings
  /\ ncalls' = ncalls + 1

CallResetToDefaultApiKey(s) ==
  /\ MayCall(s)
  /\ SaveIssue(s, NewCall("resetToDefaultApiKey", NoLocals),
               ApiUpdate(settings, [apiKey |-> getEnvVar(env, "API_KEY", <<>>)]))
  /\ UNCHANGED <<stored, last>>
  /\ UNCHANGED notSettings
  /\ ncalls' = ncalls + 1

CallToggleSimulationMode(s) ==
  /\ MayCall(s)
  /\ LET simulationMode == ~settings.simulationMode
         c == [NewCall("toggleSimulationMode", NoLocals) EXCEPT
                 !.loc = [simulationMode |-> simulationMode,
                          baseUrl |-> ToggleBaseUrl(env, simulationMode),
                          phase |-> 1]]
     IN  SaveIssue(s, c, [simulationMode |-> simulationMode])
  /\ UNCHANGED <<stored, last>>
  /\ UNCHANGED notSettings
  /\ ncalls' = ncalls + 1

CallResetAllSettings(s) ==
  /\ MayCall(s)
  /\ calls' = [calls EXCEPT ![s] = [NewCall("resetAllSettings", NoLocals) EXCEPT
                                      !.pc = "removeItem"]]
  /\ UNCHANGED <<settings, stored, last, held>>
  /\ UNCHANGED notSettings
  /\ ncalls' = ncalls + 1

\* what loadSettings leaves in this.settings for the item getItem returned
LoadedSettings(st, item, e) ==
  IF item.kind = "missing" THEN st
  ELSE IF item.kind = "corrupt" THEN getDefaultSettings(e)
  ELSE Merge(getDefaultSettings(e), item.value)

\* AsyncStorage.getItem settles and loadSettings runs to its return
GetItemDone(s, ok) ==
  /\ calls[s] # Idle /\ calls[s].pc = "getItem"
  /\ settings' = IF ok THEN LoadedSettings(settings, stored, env)
                 ELSE getDefaultSettings(env)
  /\ held' = IF ok /\ stored.kind = "missing" THEN held ELSE Unshared(held)
  /\ last' = Settled([calls[s] EXCEPT !.read = IF ok THEN stored.kind ELSE "error"],
                      "resolved", settings', settings', stored)
  /\ calls' = [calls EXCEPT ![s] = Idle]
  /\ UNCHANGED stored
  /\ UNCHANGED notSettings
  /\ UNCHANGED ncalls

\* AsyncStorage.setItem resolves: the caller of saveSettings resumes
SetItemDone(s) ==
  /\ calls[s] # Idle /\ calls[s].pc = "setItem"
  /\ stored' = SetItem(stored, calls[s].item)
  /\ LET c == calls[s]
     IN  IF c.op = "toggleSimulationMode" /\ c.loc.phase = 1
           THEN /\ SaveIssue(s, [c EXCEPT !.loc.phase = 2],
                             ApiUpdate(settings, [baseUrl |-> c.loc.baseUrl,
                                                  simulationMode |-> c.loc.simulationMode]))
                /\ UNCHANGED last
           ELSE /\ last' = Settled(c, "resolved",
                                   IF c.op \in {"saveSettings", "updateApiConfig"}
                                     THEN "void" ELSE getApiConfig(settings),
                                   settings, stored')
                /\ calls' = [calls EXCEPT ![s] = Idle]
                /\ UNCHANGED <<settings, held>>
  /\ UNCHANGED notSettings
  /\ UNCHANGED ncalls

\* a catch block that logs the error and returns normally
CatchSwallows(error) == [outcome |-> "resolved", ret |-> "void"]

\* saveSettings' catch: console.error(..); throw error
CatchRethrows(error) == [outcome |-> "rejected", ret |-> error]

\* AsyncStorage.setItem rejects: saveSettings logs and rethrows, and so does
\* every caller awaiting it
SetItemFail(s) ==
  /\ calls[s] # Idle /\ calls[s].pc = "setItem"
  /\ last' = Settled([calls[s] EXCEPT !.writeFailed = TRUE],
                      CatchRethrows("storage").outcome, CatchRethrows("storage").ret,
                      settings, stored)
  /\ calls' = [calls EXCEPT ![s] = Idle]
  /\ UNCHANGED <<settings, stored, held>>
  /\ UNCHANGED notSettings
  /\ UNCHANGED ncalls

\* AsyncStorage.removeItem settles and resetAllSettings runs to its end
RemoveItemDone(s, ok) ==
  /\ calls[s] # Idle /\ calls[s].pc = "removeItem"
  /\ IF ok
       THEN /\ stored' = RemoveItem(stored)
            /\ settings' = getDefaultSettings(env)
            /\ held' = Unshared(held)
            /\ last' = Settled(calls[s], "resolved", "void", settings', stored')
       ELSE /\ last' = Settled(calls[s], "rejected", "storage", settings, stored)
            /\ UNCHANGED <<settings, stored, held>>
  /\ calls' = [calls EXCEPT ![s] = Idle]
  /\ UNCHANGED notSettings
  /\ UNCHANGED ncalls

SettingsCall ==
  \E s \in Slots :
    \/ CallLoadSettings(s)
    \/ \E p \in SettingsPartials : CallSaveSettings(s, p)
    \/ \E p \in ApiPartials : CallUpdateApiConfig(s, p)
    \/ \E ip \in CallIps, port \in CallPorts : CallSetCustomBackendUrl(s, ip, port)
    \/ CallResetToDefaultUrl(s)
    \/ CallSetCustomApiKey(s, CustomKey)
    \/ CallResetToDefaultApiKey(s)
    \/ CallToggleSimulationMode(s)
    \/ CallResetAllSettings(s)

SettingsStep ==
  \E s \in Slots :
    \/ \E ok \in BOOLEAN : GetItemDone(s, ok)
    \/ SetItemDone(s)
    \/ SetItemFail(s)
    \/ \E ok \in BOOLEAN : RemoveItemDone(s, ok)


----------------------------------------------------------------------------
(* API Client *)

MaxUpdates == 2
MaxRequests == 2
MaxObjects == 2

ApiFallbackUrl == UrlText(Http, Dotted(192, 168, 1, 100), 3000)
NewUrl == UrlText(Http, Dotted(192, 168, 1, 50), 8080)
Token == <<"t", "k">>
JsonType == "application/json"

\* a field that is present and truthy (a non-empty string)
IsSet(cfg, k) == k \in DOMAIN cfg /\ cfg[k] # <<>>

\* config.timeout || 10000
TimeoutOrDefault(cfg) ==
  IF "timeout" \in DOMAIN cfg /\ cfg.timeout # 0 THEN cfg.timeout ELSE 10000

\* `Bearer ${authToken}`
Bearer(token) == <<"B", "e", "a", "r", "e", "r", " ">> \o token

\* defaultConfig of the module's singleton
apiDefaultConfig(e) ==
  LET simulationMode == getEnvVar(e, "SIMULATION_MODE", FalseStr) = TrueStr
  IN  [baseUrl |-> IF simulationMode THEN LoopbackUrl
                   ELSE getEnvVar(e, "API_BASE_URL", ApiFallbackUrl),
       timeout |-> ParseInt(getEnvVar(e, "API_TIMEOUT", Dec(10000)))[1],
       useHttps |-> getEnvVar(e, "API_USE_HTTPS", FalseStr) = TrueStr,
       simulationMode |-> simulationMode,
       apiKey |-> getEnvVar(e, "API_KEY", <<>>)]

\* headers: { "Content-Type": .., ...(apiKey && {..}), ...(authToken && {..}) }
ConstructorHeaders(cfg) ==
  LET names == {"Content-Type"}
               \cup (IF IsSet(cfg, "apiKey") THEN {"x-api-key"} ELSE {})
               \cup (IF IsSet(cfg, "authToken") THEN {"Authorization"} ELSE {})
  IN  [h \in names |-> CASE h = "Content-Type" -> JsonType
                         [] h = "x-api-key" -> cfg.apiKey
                         [] h = "Authorization" -> Bearer(cfg.authToken)]

\* axios.create(instanceConfig): the library defaults merged with the instance
\* configuration; headers given to create sit beside `common`, not inside it
AxiosCreate(cfg) ==
  [baseURL |-> cfg.baseUrl,
   timeout |-> TimeoutOrDefault(cfg),
   headers |-> [own |-> ConstructorHeaders(cfg),
                common |-> [h \in {"Accept"} |-> "application/json, text/plain, */*"]]]

Without(f, k) == [x \in DOMAIN f \ {k} |-> f[x]]

\* updateConfig's header statements on defaults.headers.common
UpdatedCommon(common, newConfig) ==
  LET withKey == IF IsSet(newConfig, "apiKey")
                   THEN Merge(common, [h \in {"x-api-key"} |-> newConfig.apiKey])
                   ELSE Without(common, "x-api-key")
  IN  IF IsSet(newConfig, "authToken")
        THEN Merge(withKey, [h \in {"Authorization"} |-> Bearer(newConfig.authToken)])
        ELSE Without(withKey, "Authorization")

\* updateConfig with the defaults.baseURL assignment left out
UpdatedDefaultsStaleBaseURL(ax, newConfig) ==
  [baseURL |-> ax.baseURL,
   timeout |-> TimeoutOrDefault(newConfig),
   headers |-> [own |-> ax.headers.own,
                common |-> UpdatedCommon(ax.headers.common, newConfig)]]

\* updateConfig's effect on axiosInstance.defaults
UpdatedDefaults(ax, newConfig) ==
  [baseURL |-> newConfig.baseUrl,
   timeout |-> TimeoutOrDefault(newConfig),
   headers |-> [own |-> ax.headers.own,
                common |-> UpdatedCommon(ax.headers.common, newConfig)]]

\* the headers a dispatched request carries: common first, then the
\* instance's own headers, a later entry replacing an earlier one
RequestHeaders(ax) == Merge(ax.headers.common, ax.headers.own)

\* the typed operations: method, path, and a per-request timeout if any
Operations ==
  { [name |-> "getSolisData", method |-> "get", path |-> "/automation/solis/latest"],
    [name |-> "getZaptecStatus", method |-> "get", path |-> "/automation/zaptec/status"],
    [name |-> "setAutomationMode", method |-> "post", path |-> "/automation/config"],
    [name |-> "enableAutomation", method |-> "post", path |-> "/automation/enable"],
    [name |-> "testConnection", method |-> "get", path |-> "/health"] }

\* the request axios dispatches for an operation under the current defaults
Dispatched(ax, op, epoch) ==
  [op |-> op.name, method |-> op.method, url |-> op.path,
   baseURL |-> ax.baseURL,
   timeout |-> IF op.name = "testConnection" THEN 5000 ELSE ax.timeout,
   headers |-> RequestHeaders(ax),
   epoch |-> epoch]

\* configurations the screens hand to updateConfig
NewConfigs ==
  { [baseUrl |-> u, timeout |-> 10000, useHttps |-> FALSE, simulationMode |-> FALSE,
     apiKey |-> k] : u \in {NewUrl, FallbackUrl}, k \in {<<>>, CustomKey} }
  \cup
  { [baseUrl |-> NewUrl, timeout |-> 10000, useHttps |-> FALSE, simulationMode |-> FALSE,
     apiKey |-> CustomKey, authToken |-> Token],
    [baseUrl |-> NewUrl, timeout |-> 0, useHttps |-> FALSE, simulationMode |-> FALSE] }

\* what the transport hands back to axios for one request: an HTTP response
\* (status and parsed body), or an error without a response (its message)
Responses ==
  { [kind |-> "http", status |-> 200, data |-> [payload |-> "ok"]],
    [kind |-> "http", status |-> 204, data |-> [payload |-> ""]],
    [kind |-> "http", status |-> 404, data |-> [payload |-> "Not Found"]],
    [kind |-> "http", status |-> 500,
     data |-> [message |-> "boom", error |-> "Internal Server Error"]],
    [kind |-> "http", status |-> 500, data |-> [message |-> ""]],
    [kind |-> "none", message |-> "timeout exceeded"],
    [kind |-> "none", message |-> "Network Error"],
    [kind |-> "none", message |-> ""] }

Pending == [outcome |-> "pending"]
Undefined == "undefined"

\* axios' default validateStatus
ValidateStatus(status) == status >= 200 /\ status < 300

\* the message of the error axios rejects with
AxiosErrorMessage(resp) ==
  IF resp.kind = "none" THEN resp.message
  ELSE CASE resp.status = 404 -> "Request failed with status code 404"
         [] resp.status = 500 -> "Request failed with status code 500"
         [] OTHER -> "Request failed"

\* the error handler with the response body ignored
NormalizedErrorNoBody(resp) ==
  [status |-> IF resp.kind = "http" THEN resp.status ELSE 0,
   message |-> IF AxiosErrorMessage(resp) # "" THEN AxiosErrorMessage(resp)
               ELSE "Communication error",
   error |-> Undefined,
   timestamp |-> "toISOString"]

\* the error handler reading error.response.status without the optional
\* chaining: a TypeError when there is no response
NormalizedErrorUnguarded(resp) ==
  IF resp.kind = "none"
    THEN [name |-> "TypeError", message |-> "Cannot read property 'status' of undefined"]
    ELSE [status |-> resp.status,
          message |-> IF "message" \in DOMAIN resp.data /\ resp.data.message # ""
                        THEN resp.data.message ELSE AxiosErrorMessage(resp),
          error |-> IF "error" \in DOMAIN resp.data THEN resp.data.error ELSE Undefined,
          timestamp |-> "toISOString"]

\* the response interceptor's error handler: the ApiError it rejects with
NormalizedError(resp) ==
  LET hasResponse == resp.kind = "http"
      bodyMessage == IF hasResponse /\ "message" \in DOMAIN resp.data
                       THEN resp.data.message ELSE ""
  IN  [status |-> IF hasResponse /\ resp.status # 0 THEN resp.status ELSE 0,
       message |-> IF bodyMessage # "" THEN bodyMessage
                   ELSE IF AxiosErrorMessage(resp) # "" THEN AxiosErrorMessage(resp)
                   ELSE "Communication error",
       error |-> IF hasResponse /\ "error" \in DOMAIN resp.data
                   THEN resp.data.error ELSE Undefined,
       timestamp |-> "toISOString"]

\* the promise axiosInstance.get/post returns, interceptors applied
AxiosSettles(resp) ==
  IF resp.kind = "http" /\ ValidateStatus(resp.status)
    THEN [state |-> "fulfilled", response |-> resp]
    ELSE [state |-> "rejected", reason |-> NormalizedError(resp)]

\* get / post with the rejection caught and undefined returned
GetOrPostSwallows(resp) ==
  LET p == AxiosSettles(resp)
  IN  IF p.state = "fulfilled"
        THEN [outcome |-> "resolved", value |-> p.response.data, response |-> resp]
        ELSE [outcome |-> "resolved", value |-> Undefined, response |-> resp]

\* get / post: await the request, return response.data (a rejection passes through)
GetOrPostReturns(resp) ==
  LET p == AxiosSettles(resp)
  IN  IF p.state = "fulfilled"
        THEN [outcome |-> "resolved", value |-> p.response.data, response |-> resp]
        ELSE [outcome |-> "rejected", value |-> p.reason, response |-> resp]

\* testConnection with its try/catch left out
testConnectionWithoutCatch(resp) ==
  LET p == AxiosSettles(resp)
  IN  IF p.state = "fulfilled"
        THEN [outcome |-> "resolved", value |-> p.response.status = 200, response |-> resp]
        ELSE [outcome |-> "rejected", value |-> p.reason, response |-> resp]

\* testConnection: response.status === 200, false from the catch
testConnectionReturns(resp) ==
  LET p == AxiosSettles(resp)
  IN  [outcome |-> "resolved",
       value |-> IF p.state = "fulfilled" THEN p.response.status = 200 ELSE FALSE,
       response |-> resp]

updateConfig(newConfig) ==
  /\ Len(configs) <= MaxUpdates
  /\ config' = newConfig
  /\ axios' = UpdatedDefaults(axios, newConfig)
  /\ configs' = Append(configs, newConfig)
  /\ alias' = 0
  /\ UNCHANGED <<requests, replies, objects>>
  /\ UNCHANGED notApi

\* get / post / testConnection: one request dispatched under the defaults of
\* the moment
Request(op) ==
  /\ Len(requests) < MaxRequests
  /\ requests' = Append(requests, Dispatched(axios, op, Len(configs)))
  /\ replies' = Append(replies, Pending)
  /\ UNCHANGED <<config, axios, configs, objects, alias>>
  /\ UNCHANGED notApi

\* the transport settles request i and the operation that issued it returns
Respond(i, resp) ==
  /\ i \in 1..Len(requests) /\ replies[i] = Pending
  /\ replies' = [replies EXCEPT ![i] =
       IF requests[i].op = "testConnection" THEN testConnectionReturns(resp)
       ELSE GetOrPostReturns(resp)]
  /\ UNCHANGED <<config, axios, configs, requests, objects, alias>>
  /\ UNCHANGED notApi

\* getConfig(): a new object { ...this.config } handed to the caller
getConfig ==
  /\ Len(objects) < MaxObjects
  /\ objects' = Append(objects, config)
  /\ UNCHANGED <<config, axios, configs, requests, replies, alias>>
  /\ UNCHANGED notApi

\* fields a caller assigns on an object it holds
Assignments ==
  { [baseUrl |-> UrlText(Http, Dotted(6, 6, 6, 6), 80)], [apiKey |-> Token] }

\* the caller assigns to fields of object i; when this.config is that very
\* object, this.config shows the assignment too
MutateReturned(i, fields) ==
  /\ i \in 1..Len(objects)
  /\ objects[i] # Merge(objects[i], fields)
  /\ objects' = [objects EXCEPT ![i] = Merge(objects[i], fields)]
  /\ config' = IF alias = i THEN objects'[i] ELSE config
  /\ UNCHANGED <<axios, configs, requests, replies, alias>>
  /\ UNCHANGED notApi

\* updateConfig(c) with c an object the caller holds and keeps:
\* this.config = newConfig stores the reference
updateConfigWith(i) ==
  /\ i \in 1..Len(objects)
  /\ Len(configs) <= MaxUpdates
  /\ config' = objects[i]
  /\ axios' = UpdatedDefaults(axios, objects[i])
  /\ configs' = Append(configs, objects[i])
  /\ alias' = i
  /\ UNCHANGED <<requests, replies, objects>>
  /\ UNCHANGED notApi

ApiInit ==
  /\ config = apiDefaultConfig(env)
  /\ axios = AxiosCreate(config)
  /\ configs = <<config>>
  /\ requests = <<>>
  /\ replies = <<>>
  /\ objects = <<>>
  /\ alias = 0

ApiNext ==
  \/ \E c \in NewConfigs : updateConfig(c)
  \/ \E op \in Operations : Request(op)

\* a caller reading the configuration, changing what it read and handing
\* configurations back
ConfigNext ==
  \/ getConfig
  \/ \E i \in 1..MaxObjects, f \in Assignments : MutateReturned(i, f)
  \/ \E i \in 1..MaxObjects : updateConfigWith(i)
  \/ \E c \in NewConfigs : updateConfig(c)

\* the operations and their responses, under the configuration of construction
CallNext ==
  \/ \E op \in Operations : Request(op)
  \/ \E i \in 1..MaxRequests, resp \in Responses : Respond(i, resp)


----------------------------------------------------------------------------
(* HomeScreen: database loads, real-time loads and the 30 s poll *)

MaxTs == 3
MaxLoads == 1

\* solisData is the timestamp of the displayed snapshot, 0 for null
\* (loadData compares against new Date(0) when solisData is null);
\* pollSeen is the solisData of the render whose loadData the interval calls
HomeInitial ==
  [mounted |-> FALSE, solisData |-> 0, zaptecStatus |-> 0, isLoading |-> TRUE,
   isRefreshing |-> FALSE, isRealTimeRefreshing |-> FALSE, lastUpdate |-> 0,
   isRealTimeData |-> FALSE, pollSeen |-> 0, alerts |-> 0]

RemoveAt(q, i) == SubSeq(q, 1, i - 1) \o SubSeq(q, i + 1, Len(q))

\* a load started from a render that saw solisData = seen
NewLoad(kind, seen) == [kind |-> kind, seen |-> seen, pc |-> "sent", ok |-> TRUE,
                        solisOk |-> TRUE, zaptecOk |-> TRUE,
                        solis |-> 0, zaptec |-> 0]

\* useEffect(() => { loadData(); }, []) and the interval effect's first run
Mount ==
  /\ ~home.mounted
  /\ home' = [home EXCEPT !.mounted = TRUE, !.pollSeen = home.solisData]
  /\ loads' = Append(loads, NewLoad("db", home.solisData))
  /\ UNCHANGED server
  /\ UNCHANGED notHome

\* the setInterval callback of the render that last changed isLoading/isRefreshing
PollTick ==
  /\ home.mounted /\ Len(loads) < MaxLoads
  /\ ~home.isLoading /\ ~home.isRefreshing
  /\ loads' = Append(loads, NewLoad("db", home.pollSeen))
  /\ UNCHANGED <<home, server>>
  /\ UNCHANGED notHome

\* pull-to-refresh: setIsRefreshing(true); loadData() of the current render
handleRefresh ==
  /\ home.mounted /\ Len(loads) < MaxLoads
  /\ ~home.isLoading /\ ~home.isRefreshing
  /\ home' = [home EXCEPT !.isRefreshing = TRUE, !.pollSeen = home.solisData]
  /\ loads' = Append(loads, NewLoad("db", home.solisData))
  /\ UNCHANGED server
  /\ UNCHANGED notHome

\* the real-time button: loadRealTimeData() of the current render
handleRealTimeRefresh ==
  /\ home.mounted /\ Len(loads) < MaxLoads
  /\ ~home.isLoading /\ ~home.isRealTimeRefreshing
  /\ home' = [home EXCEPT !.isRealTimeRefreshing = TRUE]
  /\ loads' = Append(loads, NewLoad("rt", home.solisData))
  /\ UNCHANGED server
  /\ UNCHANGED notHome

\* the backend: time passes, and the automation stores a snapshot
ServerTick ==
  /\ server.now < MaxTs
  /\ server' = [server EXCEPT !.now = server.now + 1]
  /\ UNCHANGED <<home, loads>>
  /\ UNCHANGED notHome

ServerStore ==
  /\ server.db < server.now
  /\ server' = [server EXCEPT !.db = server.now]
  /\ UNCHANGED <<home, loads>>
  /\ UNCHANGED notHome

\* a join that fulfils as soon as one read does
PromiseAllFulfilsOnAny(solisOk, zaptecOk) == solisOk \/ zaptecOk

\* Promise.all([..]) fulfils when every read fulfils and rejects otherwise
PromiseAllFulfils(solisOk, zaptecOk) == solisOk /\ zaptecOk

\* the backend answers the two reads of a load, each fulfilled (with a
\* snapshot) or rejected (with none); ok is how the awaited Promise.all settles
ServerAnswer(i, solisOk, zaptecOk) ==
  /\ i \in 1..Len(loads) /\ loads[i].pc = "sent"
  /\ loads' = [loads EXCEPT ![i] =
       [@ EXCEPT !.pc = "answered", !.ok = PromiseAllFulfils(solisOk, zaptecOk),
                 !.solisOk = solisOk, !.zaptecOk = zaptecOk,
                 !.solis = IF ~solisOk THEN 0
                           ELSE IF loads[i].kind = "rt" THEN server.now ELSE server.db,
                 !.zaptec = IF zaptecOk THEN server.now ELSE 0]]
  /\ UNCHANGED <<home, server>>
  /\ UNCHANGED notHome

\* whether loadData adopts the snapshot it fetched
LoadDataAdopts(newTs, seenTs) == newTs >= seenTs

\* whether loadRealTimeData adopts it: both branches of its if set the state
LoadRealTimeDataAdopts(newTs, seenTs) == TRUE

\* the state a finished loadData leaves
AfterLoadData(h, l, now) ==
  LET adopted == IF l.ok /\ LoadDataAdopts(l.solis, l.seen)
                   THEN [h EXCEPT !.solisData = l.solis, !.zaptecStatus = l.zaptec,
                                  !.lastUpdate = now, !.isRealTimeData = FALSE]
                 ELSE IF l.ok THEN h
                 ELSE [h EXCEPT !.alerts = 1]
      cleared == [adopted EXCEPT !.isLoading = FALSE, !.isRefreshing = FALSE]
  IN  IF h.isLoading \/ h.isRefreshing
        THEN [cleared EXCEPT !.pollSeen = cleared.solisData]
        ELSE cleared

\* the state a finished loadRealTimeData leaves
AfterLoadRealTimeData(h, l, now) ==
  LET adopted == IF l.ok /\ LoadRealTimeDataAdopts(l.solis, l.seen)
                   THEN [h EXCEPT !.solisData = l.solis, !.zaptecStatus = l.zaptec,
                                  !.lastUpdate = now, !.isRealTimeData = TRUE]
                 ELSE IF l.ok THEN h
                 ELSE [h EXCEPT !.alerts = 1]
  IN  [adopted EXCEPT !.isRealTimeRefreshing = FALSE]

\* the awaited Promise.all settles and the load runs to its end
LoadDone(i) ==
  /\ i \in 1..Len(loads) /\ loads[i].pc = "answered"
  /\ home' = IF loads[i].kind = "db" THEN AfterLoadData(home, loads[i], server.now)
             ELSE AfterLoadRealTimeData(home, loads[i], server.now)
  /\ loads' = RemoveAt(loads, i)
  /\ UNCHANGED server
  /\ UNCHANGED notHome

HomeInit ==
  /\ home = HomeInitial
  /\ loads = <<>>
  /\ server = [now |-> 1, db |-> 1]

HomeNext ==
  \/ Mount
  \/ PollTick
  \/ handleRefresh
  \/ handleRealTimeRefresh
  \/ ServerTick
  \/ ServerStore
  \/ \E i \in 1..MaxLoads, solisOk, zaptecOk \in BOOLEAN : ServerAnswer(i, solisOk, zaptecOk)
  \/ \E i \in 1..MaxLoads : LoadDone(i)

----------------------------------------------------------------------------
(* compose / parse round trip of the backend URL *)

RtIps == {GoodIp, Localhost, Dotted(1, 2, 3, 4), Dotted(10, 0, 0, 255), Dotted(255, 255, 255, 255),
          <<"0", "1", "0", ".", "1", ".", "1", ".", "1">>,
          <<"0", "9", ".", "1", ".", "1", ".", "1">>,
          BadOctetIp, NotAnIp, <<>>, Dotted(1, 2, 3, 4) \o <<".", "5">>,
          <<"1", ".", "2", ".", "3">>, Dotted(256, 1, 1, 1)}
RtPorts == {0, 1, 80, 443, 3000, 8080, 65535, 65536}

RtIdle == [pc |-> "idle"]

\* setCustomBackendUrl's validation and composition on one input
RtCompose(ip, port, useHttps) ==
  /\ rt.pc = "idle"
  /\ rt' = IF isValidIpAddress(ip)
             THEN [pc |-> "composed", ip |-> ip, port |-> port, useHttps |-> useHttps,
                   url |-> ComposeBackendUrl(useHttps, ip, port)]
             ELSE [pc |-> "rejected", ip |-> ip, port |-> port, useHttps |-> useHttps]
  /\ UNCHANGED notRt

\* parseBackendUrl on the composed URL
RtParse ==
  /\ rt.pc = "composed"
  /\ rt' = [pc |-> "parsed", ip |-> rt.ip, port |-> rt.port, useHttps |-> rt.useHttps,
            url |-> rt.url, parsed |-> parseBackendUrl(rt.url)]
  /\ UNCHANGED notRt

\* texts handed to parseBackendUrl: no scheme, no host, a port or an octet out
\* of range, a forbidden character in the host, "localhost:3000" (which parses,
\* with scheme "localhost"), and well-formed backend URLs
Garbage == <<"g", "a", "r", "b", "a", "g", "e">>
UrlTexts ==
  { Garbage, <<>>, GoodIp \o <<":">> \o Dec(8080), Http \o <<":", "/", "/">>,
    UrlText(Http, Dotted(1, 2, 3, 4), 65536), UrlText(Http, BadOctetIp, 80),
    UrlText(Http, <<"a", " ", "b">>, 80), UrlText(Http, <<>>, 3000),
    Localhost \o <<":">> \o Dec(3000),
    UrlText(Https, GoodIp, 8080), FallbackUrl, LoopbackUrl }

\* parseBackendUrl on a text that setCustomBackendUrl did not compose
RtParseText(url) ==
  /\ rt.pc = "idle"
  /\ rt' = [pc |-> "read", url |-> url, parsed |-> parseBackendUrl(url)]
  /\ UNCHANGED notRt

RtReset ==
  /\ rt.pc \in {"parsed", "rejected", "read"}
  /\ rt' = RtIdle
  /\ UNCHANGED notRt

RtNext ==
  \/ \E ip \in RtIps, port \in RtPorts, h \in BOOLEAN : RtCompose(ip, port, h)
  \/ RtParse
  \/ \E url \in UrlTexts : RtParseText(url)
  \/ RtReset

----------------------------------------------------------------------------
(* ZaptecScreen: setting the charging current *)

MaxSent == 1

\* maxLength of the current input
MaxCurrentLength == 2

\* parseFloat(s) in tenths: an optional sign, digits, an optional fraction;
\* the longest such prefix is read, NaN when it holds no digit (the inputs
\* carry at most one fractional digit and no exponent)
parseFloat(s) ==
  LET signed == s # <<>> /\ Head(s) \in {"-", "+"}
      body == IF signed THEN Tail(s) ELSE s
      int == LeadingDigits(body)
      rest == SubSeq(body, Len(int) + 1, Len(body))
      frac == IF rest # <<>> /\ Head(rest) = "." THEN LeadingDigits(Tail(rest)) ELSE <<>>
      mag == DigitsValue(int, 10) * 10 + (IF frac = <<>> THEN 0 ELSE DigitVal(frac[1]))
  IN  IF int = <<>> /\ frac = <<>> THEN NaN
      ELSE <<IF signed /\ Head(s) = "-" THEN 0 - mag ELSE mag>>

\* the validation with the upper limit left out
CurrentRejectedNoUpperLimit(current) == current = NaN \/ current[1] < 60

\* isNaN(current) || current < 6 || current > 16
CurrentRejected(current) == current = NaN \/ current[1] < 60 \/ current[1] > 160

\* texts the numeric keyboard and maxLength allow
CurrentInputs ==
  { <<>>, <<"5">>, <<"6">>, <<"1", "6">>, <<"1", "7">>, <<"-", "8">>, <<"9", ",">>, <<",">> }

ZaptecInitial ==
  [isModalVisible |-> FALSE, currentInput |-> <<>>, isControlLoading |-> FALSE,
   alert |-> "none", sent |-> <<>>, pending |-> FALSE,
   pressed |-> [input |-> <<>>, called |-> FALSE, loadingChanged |-> FALSE]]

\* the "Set current" button: setIsModalVisible(true); a modal covers the
\* whole window, so it opens only when no other modal is shown
OpenCurrentModal ==
  /\ ~zscreen.isModalVisible /\ ~sscreen.isIpModalVisible
  /\ zscreen' = [zscreen EXCEPT !.isModalVisible = TRUE]
  /\ UNCHANGED notZaptec

\* onChangeText={setCurrentInput}
setCurrentInput(text) ==
  /\ zscreen.isModalVisible /\ Len(text) <= MaxCurrentLength
  /\ zscreen.currentInput # text
  /\ zscreen' = [zscreen EXCEPT !.currentInput = text]
  /\ UNCHANGED notZaptec

\* the modal's Cancel button
CancelCurrentModal ==
  /\ zscreen.isModalVisible
  /\ zscreen' = [zscreen EXCEPT !.isModalVisible = FALSE, !.currentInput = <<>>]
  /\ UNCHANGED notZaptec

\* the Confirm button (disabled while isControlLoading): handleSetCurrent up
\* to its await; `pressed` records what this press did
handleSetCurrent ==
  /\ zscreen.isModalVisible /\ ~zscreen.isControlLoading
  /\ Len(zscreen.sent) < MaxSent
  /\ LET current == parseFloat(zscreen.currentInput)
         after == IF CurrentRejected(current)
                    THEN [zscreen EXCEPT !.alert = "Invalid Value"]
                    ELSE [zscreen EXCEPT !.isControlLoading = TRUE, !.pending = TRUE,
                                         !.sent = Append(@, current[1])]
     IN  zscreen' = [after EXCEPT !.pressed =
                       [input |-> zscreen.currentInput,
                        called |-> after.sent # zscreen.sent,
                        loadingChanged |-> after.isControlLoading # zscreen.isControlLoading]]
  /\ UNCHANGED notZaptec

\* apiService.setChargingCurrent settles and handleSetCurrent runs to its end
SetCurrentDone(ok) ==
  /\ zscreen.pending
  /\ zscreen' = IF ok
                  THEN [zscreen EXCEPT !.alert = "Success", !.isModalVisible = FALSE,
                                       !.currentInput = <<>>, !.pending = FALSE,
                                       !.isControlLoading = FALSE]
                  ELSE [zscreen EXCEPT !.alert = "Error", !.pending = FALSE,
                                       !.isControlLoading = FALSE]
  /\ UNCHANGED notZaptec

ZaptecNext ==
  \/ OpenCurrentModal
  \/ \E text \in CurrentInputs : setCurrentInput(text)
  \/ CancelCurrentModal
  \/ handleSetCurrent
  \/ \E ok \in BOOLEAN : SetCurrentDone(ok)

----------------------------------------------------------------------------
(* SettingsScreen: saving the IP configuration *)

\* String.prototype.trim for texts whose only white space is the space
RECURSIVE TrimStart(_)
TrimStart(s) == IF s # <<>> /\ Head(s) = " " THEN TrimStart(Tail(s)) ELSE s

RECURSIVE TrimEnd(_)
TrimEnd(s) ==
  IF s # <<>> /\ s[Len(s)] = " " THEN TrimEnd(SubSeq(s, 1, Len(s) - 1)) ELSE s

Trim(s) == TrimEnd(TrimStart(s))

\* texts of the IP and port fields
IpTexts == {<<>>, <<" ">>, GoodIp, <<" ">> \o GoodIp \o <<" ">>, BadOctetIp}
PortTexts == {Dec(8080), <<>>}

KeyTexts == {<<>>, CustomKey, <<" ">> \o CustomKey}

\* currentApiConfig starts as useState(apiService.getConfig()); mounted tells
\* whether the mount effect has run
SettingsScreenInitial ==
  [isLoading |-> FALSE, isIpModalVisible |-> FALSE, connectionStatus |-> "unknown",
   alert |-> "none", pc |-> "idle",
   pressed |-> [newIp |-> <<>>, updates |-> 1],
   mounted |-> FALSE, isApiKeyModalVisible |-> FALSE, currentApiConfig |-> config,
   isModeModalVisible |-> FALSE, selectedMode |-> "surplus", automationConfig |-> "null",
   apiCalls |-> 0]

\* the row that opens the IP modal (when no other modal is shown)
OpenIpModal ==
  /\ ~sscreen.isIpModalVisible /\ sscreen.pc = "idle" /\ ~zscreen.isModalVisible
  /\ ~sscreen.isApiKeyModalVisible /\ ~sscreen.isModeModalVisible
  /\ sscreen' = [sscreen EXCEPT !.isIpModalVisible = TRUE]
  /\ UNCHANGED <<env, settingsVars, apiVars, homeVars, rt, zscreen, charts>>

\* saveIpConfiguration up to the point where it waits for storage; `pressed`
\* records the IP text and how many configurations the API Client had been
\* given when the button was pressed
saveIpConfiguration(newIp, newPort) ==
  /\ sscreen.isIpModalVisible /\ sscreen.pc = "idle"
  /\ MayCall(1)
  /\ LET ip == Trim(newIp)
         port == OrDefaultPort(ParseInt(newPort))
         c == NewCall("setCustomBackendUrl", [ip |-> ip, port |-> port])
         useHttps == "useHttps" \in DOMAIN settings.api /\ settings.api.useHttps
         noted == [sscreen EXCEPT !.pressed = [newIp |-> newIp, updates |-> Len(configs)]]
     IN  IF ip = <<>>
           THEN /\ sscreen' = [noted EXCEPT !.alert = "Veuillez entrer une adresse IP"]
                /\ UNCHANGED <<settings, stored, calls, last, ncalls, held>>
         ELSE IF ~isValidIpAddress(ip)
           THEN /\ last' = Settled(c, "rejected", "Adresse IP invalide", settings, stored)
                /\ sscreen' = [noted EXCEPT !.alert = "Adresse IP invalide"]
                /\ ncalls' = ncalls + 1
                /\ UNCHANGED <<settings, stored, calls, held>>
         ELSE /\ SaveIssue(1, c, ApiUpdate(settings,
                     [baseUrl |-> ComposeBackendUrl(useHttps, ip, port)]))
              /\ sscreen' = [noted EXCEPT !.isLoading = TRUE, !.pc = "saving"]
              /\ ncalls' = ncalls + 1
              /\ UNCHANGED <<stored, last>>
  /\ UNCHANGED <<env, overlap, apiVars, homeVars, rt, zscreen, charts>>

\* the branch taken after await setCustomBackendUrl(..) returned normally
SaveIpSucceeds(outcome) == outcome = "resolved"

\* saveIpConfiguration after its await: updateConfig and the success alert, or
\* the catch (which shows error.message); then finally
saveIpResume ==
  /\ sscreen.pc = "saving" /\ calls[1] = Idle
  /\ IF SaveIpSucceeds(last.outcome)
       THEN /\ config' = last.ret
            /\ axios' = UpdatedDefaults(axios, last.ret)
            /\ configs' = Append(configs, last.ret)
            /\ alias' = 0
            /\ sscreen' = [sscreen EXCEPT !.isIpModalVisible = FALSE,
                                          !.currentApiConfig = last.ret,
                                          !.connectionStatus = "unknown",
                                          !.alert = "Configuration IP sauvegardee",
                                          !.isLoading = FALSE, !.pc = "idle"]
       ELSE /\ sscreen' = [sscreen EXCEPT !.alert = last.ret,
                                          !.isLoading = FALSE, !.pc = "idle"]
            /\ UNCHANGED <<config, axios, configs, alias>>
  /\ UNCHANGED <<env, settingsVars, requests, replies, objects, homeVars, rt, zscreen, charts>>

\* useEffect(() => { loadSettings(); }, []): the screen's loadSettings up to
\* its await of settingsService.loadSettings()
MountSettingsScreen ==
  /\ ~sscreen.mounted /\ sscreen.pc = "idle" /\ MayCall(1)
  /\ calls' = [calls EXCEPT ![1] = [NewCall("loadSettings", NoLocals) EXCEPT !.pc = "getItem"]]
  /\ ncalls' = ncalls + 1
  /\ sscreen' = [sscreen EXCEPT !.mounted = TRUE, !.pc = "loading"]
  /\ UNCHANGED <<settings, stored, last, held>>
  /\ UNCHANGED <<env, overlap, apiVars, homeVars, rt, zscreen, charts>>

\* the screen's loadSettings after the await:
\* setCurrentApiConfig(settingsService.getApiConfig()), then it awaits
\* loadAutomationConfig()
loadSettingsResume ==
  /\ sscreen.pc = "loading" /\ calls[1] = Idle
  /\ sscreen' = [sscreen EXCEPT !.currentApiConfig = getApiConfig(settings),
                                !.pc = "loadingAutomation"]
  /\ UNCHANGED <<env, settingsVars, apiVars, homeVars, rt, zscreen, charts>>

\* the row that opens the API key modal, and the modal's Cancel button
OpenApiKeyModal ==
  /\ sscreen.mounted /\ sscreen.pc = "idle" /\ ~zscreen.isModalVisible
  /\ ~sscreen.isIpModalVisible /\ ~sscreen.isApiKeyModalVisible
  /\ ~sscreen.isModeModalVisible
  /\ sscreen' = [sscreen EXCEPT !.isApiKeyModalVisible = TRUE]
  /\ UNCHANGED <<env, settingsVars, apiVars, homeVars, rt, zscreen, charts>>

CloseApiKeyModal ==
  /\ sscreen.isApiKeyModalVisible /\ sscreen.pc = "idle"
  /\ sscreen' = [sscreen EXCEPT !.isApiKeyModalVisible = FALSE]
  /\ UNCHANGED <<env, settingsVars, apiVars, homeVars, rt, zscreen, charts>>

\* a handler up to its await of a Settings Store call that saves `apiConfig`:
\* setIsLoading(true), then the call is started
StartStoreCall(pc, op, args, apiConfig) ==
  /\ sscreen.pc = "idle" /\ ~sscreen.isLoading /\ MayCall(1)
  /\ SaveIssue(1, NewCall(op, args), ApiUpdate(settings, apiConfig))
  /\ ncalls' = ncalls + 1
  /\ sscreen' = [sscreen EXCEPT !.isLoading = TRUE, !.pc = pc,
                                !.pressed = [newIp |-> <<>>, updates |-> Len(configs)]]
  /\ UNCHANGED <<stored, last>>
  /\ UNCHANGED <<env, overlap, apiVars, homeVars, rt, zscreen, charts>>

\* the "reset to default" row of the screen
resetToDefault ==
  /\ sscreen.mounted /\ ~sscreen.isIpModalVisible /\ ~sscreen.isApiKeyModalVisible
  /\ ~sscreen.isModeModalVisible /\ ~zscreen.isModalVisible
  /\ StartStoreCall("resetting", "resetToDefaultUrl", NoLocals,
                    [baseUrl |-> getDefaultApiConfig(env).baseUrl])

\* the Save button of the API key modal: setCustomApiKey(newApiKey.trim())
saveApiKeyConfiguration(newApiKey) ==
  /\ sscreen.isApiKeyModalVisible
  /\ StartStoreCall("savingKey", "setCustomApiKey", [apiKey |-> Trim(newApiKey)],
                    [apiKey |-> Trim(newApiKey)])

\* the Reset button of the API key modal
resetApiKeyToDefault ==
  /\ sscreen.isApiKeyModalVisible
  /\ StartStoreCall("resettingKey", "resetToDefaultApiKey", NoLocals,
                    [apiKey |-> getEnvVar(env, "API_KEY", <<>>)])

\* what the three handlers show: [pc, alert on success, alert in the catch,
\* whether success closes the API key modal]
StoreHandlers ==
  { [pc |-> "resetting", done |-> "Configuration reinitialisee",
     failed |-> "Erreur lors de la reinitialisation", closes |-> FALSE],
    [pc |-> "savingKey", done |-> "Cle API sauvegardee",
     failed |-> "error.message", closes |-> TRUE],
    [pc |-> "resettingKey", done |-> "Cle API reinitialisee",
     failed |-> "Erreur lors de la reinitialisation", closes |-> FALSE] }

\* handlers that hand the store's configuration to the API Client in finally,
\* whether the call resolved or rejected
StoreCallResumeInFinally(h) ==
  /\ sscreen.pc = h.pc /\ calls[1] = Idle
  /\ config' = getApiConfig(settings)
  /\ axios' = UpdatedDefaults(axios, getApiConfig(settings))
  /\ configs' = Append(configs, getApiConfig(settings))
  /\ alias' = 0
  /\ sscreen' = [sscreen EXCEPT !.currentApiConfig = getApiConfig(settings),
                                !.alert = IF last.outcome = "resolved" THEN h.done ELSE h.failed,
                                !.isLoading = FALSE, !.pc = "idle"]
  /\ UNCHANGED <<env, settingsVars, requests, replies, objects, homeVars, rt, zscreen, charts>>

\* resetToDefault / saveApiKeyConfiguration / resetApiKeyToDefault after the
\* await: updateConfig, setCurrentApiConfig and the success alert, or the
\* catch; then finally
StoreCallResume(h) ==
  /\ sscreen.pc = h.pc /\ calls[1] = Idle
  /\ IF SaveIpSucceeds(last.outcome)
       THEN /\ config' = last.ret
            /\ axios' = UpdatedDefaults(axios, last.ret)
            /\ configs' = Append(configs, last.ret)
            /\ alias' = 0
            /\ sscreen' = [sscreen EXCEPT
                  !.isApiKeyModalVisible = IF h.closes THEN FALSE ELSE @,
                  !.currentApiConfig = last.ret,
                  !.connectionStatus = "unknown",
                  !.alert = h.done, !.isLoading = FALSE, !.pc = "idle"]
       ELSE /\ sscreen' = [sscreen EXCEPT
                  !.alert = IF h.failed = "error.message" THEN last.ret ELSE h.failed,
                  !.isLoading = FALSE, !.pc = "idle"]
            /\ UNCHANGED <<config, axios, configs, alias>>
  /\ UNCHANGED <<env, settingsVars, requests, replies, objects, homeVars, rt, zscreen, charts>>

\* everything a SettingsScreen step on its own state leaves alone
notSettingsScreen == <<env, settingsVars, apiVars, homeVars, rt, zscreen, charts>>

AutomationModes == {"surplus", "manual"}

\* how many API Client calls the screen's handlers start in a run
MaxApiCalls == 1

\* loadAutomationConfig after its await of apiService.getAutomationConfig():
\* setAutomationConfig / setSelectedMode, or the catch that only logs
loadAutomationConfig(s, ok, mode) ==
  IF ok THEN [s EXCEPT !.automationConfig = mode, !.selectedMode = mode] ELSE s

\* the last await of the screen's loadSettings settles
loadAutomationConfigDone(ok, mode) ==
  /\ sscreen.pc = "loadingAutomation"
  /\ sscreen' = [loadAutomationConfig(sscreen, ok, mode) EXCEPT !.pc = "idle"]
  /\ UNCHANGED notSettingsScreen

NoModal ==
  /\ ~sscreen.isIpModalVisible /\ ~sscreen.isApiKeyModalVisible
  /\ ~sscreen.isModeModalVisible /\ ~zscreen.isModalVisible

\* the "test connection" row: testConnection up to its await
testConnection ==
  /\ sscreen.mounted /\ sscreen.pc = "idle" /\ ~sscreen.isLoading /\ NoModal
  /\ sscreen.apiCalls < MaxApiCalls
  /\ sscreen' = [sscreen EXCEPT !.isLoading = TRUE, !.pc = "testing", !.apiCalls = @ + 1]
  /\ UNCHANGED notSettingsScreen

\* testConnection with a catch that returns before the flag is cleared
testConnectionResumeNoFinally(resp) ==
  /\ sscreen.pc = "testing"
  /\ LET isConnected == testConnectionReturns(resp).value
     IN sscreen' = [sscreen EXCEPT
          !.connectionStatus = IF isConnected THEN "connected" ELSE "failed",
          !.alert = IF isConnected THEN "Connexion reussie!" ELSE "Connexion echouee",
          !.isLoading = isConnected => FALSE, !.pc = "idle"]
  /\ UNCHANGED notSettingsScreen

\* testConnection after apiService.testConnection() settled with the
\* backend's response `resp`; then finally
testConnectionResume(resp) ==
  /\ sscreen.pc = "testing"
  /\ LET isConnected == testConnectionReturns(resp).value
     IN sscreen' = [sscreen EXCEPT
          !.connectionStatus = IF isConnected THEN "connected" ELSE "failed",
          !.alert = IF isConnected THEN "Connexion reussie!" ELSE "Connexion echouee",
          !.isLoading = FALSE, !.pc = "idle"]
  /\ UNCHANGED notSettingsScreen

\* the automation mode row (disabled while isLoading or without a loaded
\* configuration), the options of the modal and its Cancel button
openModeModal ==
  /\ sscreen.mounted /\ sscreen.pc = "idle" /\ ~sscreen.isLoading /\ NoModal
  /\ sscreen.automationConfig # "null"
  /\ sscreen' = [sscreen EXCEPT !.selectedMode = sscreen.automationConfig,
                                !.isModeModalVisible = TRUE]
  /\ UNCHANGED notSettingsScreen

setSelectedMode(mode) ==
  /\ sscreen.isModeModalVisible /\ sscreen.pc = "idle"
  /\ mode # sscreen.selectedMode
  /\ sscreen' = [sscreen EXCEPT !.selectedMode = mode]
  /\ UNCHANGED notSettingsScreen

CloseModeModal ==
  /\ sscreen.isModeModalVisible /\ sscreen.pc = "idle" /\ ~sscreen.isLoading
  /\ sscreen' = [sscreen EXCEPT !.isModeModalVisible = FALSE]
  /\ UNCHANGED notSettingsScreen

\* saveModeConfiguration up to its await of apiService.setAutomationMode
saveModeConfiguration ==
  /\ sscreen.isModeModalVisible /\ sscreen.pc = "idle" /\ ~sscreen.isLoading
  /\ sscreen.apiCalls < MaxApiCalls
  /\ sscreen' = [sscreen EXCEPT !.isLoading = TRUE, !.pc = "savingMode", !.apiCalls = @ + 1]
  /\ UNCHANGED notSettingsScreen

\* setAutomationMode settled: on to await loadAutomationConfig(), or the
\* catch and finally
saveModeResume(ok) ==
  /\ sscreen.pc = "savingMode"
  /\ sscreen' = IF ok THEN [sscreen EXCEPT !.pc = "reloadingMode"]
                ELSE [sscreen EXCEPT !.alert = "error.message",
                                     !.isLoading = FALSE, !.pc = "idle"]
  /\ UNCHANGED notSettingsScreen

\* loadAutomationConfig() settled: the modal closes, the success alert, finally
saveModeReloaded(ok, mode) ==
  /\ sscreen.pc = "reloadingMode"
  /\ sscreen' = [loadAutomationConfig(sscreen, ok, mode) EXCEPT
                   !.isModeModalVisible = FALSE, !.alert = "Mode active",
                   !.isLoading = FALSE, !.pc = "idle"]
  /\ UNCHANGED notSettingsScreen

SettingsScreenNext ==
  \/ OpenIpModal
  \/ \E ip \in IpTexts, port \in PortTexts : saveIpConfiguration(ip, port)
  \/ \E s \in Slots : SetItemDone(s)
  \/ \E s \in Slots : SetItemFail(s)
  \/ saveIpResume

ScreenNext == ZaptecNext \/ SettingsScreenNext

\* the Settings screen from its mount on, with every handler that saves the
\* connection configuration
SettingsOpsNext ==
  \/ MountSettingsScreen
  \/ \E ok \in BOOLEAN : GetItemDone(1, ok)
  \/ loadSettingsResume
  \/ \E ok \in BOOLEAN, mode \in AutomationModes : loadAutomationConfigDone(ok, mode)
  \/ OpenIpModal
  \/ \E ip \in IpTexts, port \in PortTexts : saveIpConfiguration(ip, port)
  \/ saveIpResume
  \/ OpenApiKeyModal
  \/ CloseApiKeyModal
  \/ resetToDefault
  \/ \E key \in KeyTexts : saveApiKeyConfiguration(key)
  \/ resetApiKeyToDefault
  \/ \E h \in StoreHandlers : StoreCallResume(h)
  \/ SetItemDone(1)
  \/ SetItemFail(1)

----------------------------------------------------------------------------
(* Specifications *)

SettingsInit ==
  /\ settings = getDefaultSettings(env)
  /\ held = <<>>
  /\ ncalls = 0
  /\ calls = [s \in Slots |-> Idle]
  /\ last = [op |-> "none", args |-> NoLocals, outcome |-> "none", ret |-> "void",
             preUrl |-> settings.api.baseUrl, preUseHttps |-> settings.api.useHttps,
             preSimulationMode |-> settings.simulationMode,
             memorySame |-> TRUE, storedSame |-> TRUE, wrote |-> FALSE, read |-> "none",
             writeFailed |-> FALSE,
             prev |-> [op |-> "none", outcome |-> "none",
                       preUrl |-> settings.api.baseUrl]]

\* ---------------------------------------------------------------------------
\* ChartsScreen and its five useChartData hooks
\* ---------------------------------------------------------------------------
MaxChartOps == 1
MaxFailures == 1

ChartTypes == {"dashboard", "solar", "house", "grid", "zaptec"}
Periods == {"day", "week"}
Today == "2024-06-02"
DayBefore == "2024-06-01"
Dates == {Today, DayBefore}

NullData == [null |-> TRUE]

\* const chartDate = selectedPeriod === "day" ? selectedDate : undefined;
chartDate(period, date) == IF period = "day" THEN date ELSE Undefined

\* useState(null) / useState(false) / useState(null); `started` numbers the
\* hook's fetches and `latest` tells how the most recently started one ended
HookInitial ==
  [data |-> NullData, loading |-> FALSE, error |-> "null", started |-> 0, latest |-> "none"]

ChartsInitial ==
  [mounted |-> FALSE, selectedPeriod |-> "day", selectedDate |-> Today,
   isRefreshing |-> FALSE, promiseAll |-> FALSE,
   hooks |-> [c \in ChartTypes |-> HookInitial], fetches |-> {},
   ops |-> 0, failures |-> 0]

\* the payload the backend returns for a chart request
Response(f) == [chart |-> f.chart, period |-> f.period, date |-> f.date]

\* fetchData up to its await, in each of the five hooks:
\* setLoading(true); setError(null); result = await apiService.get...(period, date)
fetchDataAll(ch, period, date, by) ==
  [ch EXCEPT
     !.hooks = [c \in ChartTypes |->
                  [ch.hooks[c] EXCEPT !.loading = TRUE, !.error = "null",
                                      !.started = @ + 1, !.latest = "pending"]],
     !.fetches = @ \cup {[chart |-> c, id |-> ch.hooks[c].started + 1,
                           period |-> period, date |-> date, by |-> by] :
                          c \in ChartTypes}]

\* useEffect(() => { fetchData(); }, [fetchData]) on mount
MountChartsScreen ==
  /\ ~charts.mounted
  /\ charts' = fetchDataAll([charts EXCEPT !.mounted = TRUE], charts.selectedPeriod,
                            chartDate(charts.selectedPeriod, charts.selectedDate), "effect")
  /\ UNCHANGED notCharts

\* a render with new (period, date) gives a new fetchData, and the effect
\* runs it; with the same arguments fetchData is the memoized one
Rerender(ch, period, date) ==
  LET was == <<charts.selectedPeriod, chartDate(charts.selectedPeriod, charts.selectedDate)>>
      now == <<period, chartDate(period, date)>>
      set == [ch EXCEPT !.selectedPeriod = period, !.selectedDate = date, !.ops = @ + 1]
  IN IF now = was THEN set ELSE fetchDataAll(set, now[1], now[2], "effect")

handlePeriodChange(period) ==
  /\ charts.mounted
  /\ charts.ops < MaxChartOps
  /\ LET date == IF period = "day" THEN Today ELSE charts.selectedDate
     IN /\ <<period, date>> # <<charts.selectedPeriod, charts.selectedDate>>
        /\ charts' = Rerender(charts, period, date)
  /\ UNCHANGED notCharts

handleDateChange(date) ==
  /\ charts.mounted
  /\ charts.ops < MaxChartOps
  /\ date # charts.selectedDate
  /\ charts' = Rerender(charts, charts.selectedPeriod, date)
  /\ UNCHANGED notCharts

\* setIsRefreshing(true); Promise.all([refreshDashboard(), ...]).finally(...)
\* refreshData calls fetchData() and returns nothing
ChartsHandleRefresh ==
  /\ charts.mounted
  /\ charts.ops < MaxChartOps
  /\ ~charts.isRefreshing
  /\ charts' = fetchDataAll([charts EXCEPT !.isRefreshing = TRUE, !.promiseAll = TRUE,
                                           !.ops = @ + 1],
                            charts.selectedPeriod,
                            chartDate(charts.selectedPeriod, charts.selectedDate), "refresh")
  /\ UNCHANGED notCharts

\* Promise.all of five values that are not promises is fulfilled in the
\* same turn; its finally callback runs before any response is delivered
PromiseAllSettled ==
  /\ charts.promiseAll
  /\ charts' = [charts EXCEPT !.promiseAll = FALSE, !.isRefreshing = FALSE]
  /\ UNCHANGED notCharts

\* fetchData after its await: setData(result) or setError(...), then
\* setLoading(false)
FetchDone(f, ok) ==
  /\ f \in charts.fetches
  /\ ~charts.promiseAll
  /\ ~ok => charts.failures < MaxFailures
  /\ LET h == charts.hooks[f.chart]
         newest == f.id = h.started
     IN charts' = [charts EXCEPT
          !.fetches = @ \ {f},
          !.failures = IF ok THEN @ ELSE @ + 1,
          !.hooks[f.chart] =
             [h EXCEPT !.data = IF ok THEN Response(f) ELSE @,
                       !.error = IF ok THEN @ ELSE "Erreur de chargement des donnees",
                       !.loading = FALSE,
                       !.latest = IF ~newest THEN @ ELSE IF ok THEN "ok" ELSE "failed"]]
  /\ UNCHANGED notCharts

ChartsInit == charts = ChartsInitial

ChartsNext ==
  \/ MountChartsScreen
  \/ \E p \in Periods : handlePeriodChange(p)
  \/ \E d \in Dates : handleDateChange(d)
  \/ ChartsHandleRefresh
  \/ PromiseAllSettled
  \/ \E c \in ChartTypes, i \in 1..(MaxChartOps + 1), p \in Periods,
        d \in Dates \cup {Undefined}, by \in {"effect", "refresh"}, ok \in BOOLEAN :
       FetchDone([chart |-> c, id |-> i, period |-> p, date |-> d, by |-> by], ok)

ScreenInit ==
  /\ zscreen = ZaptecInitial
  /\ sscreen = SettingsScreenInitial
  /\ ChartsInit

\* each specification runs one component; the others rest in an initial state
Rest ==
  /\ env = EnvUnset
  /\ stored = Missing
  /\ overlap = FALSE

SettingsSpecInit ==
  /\ env \in Envs
  /\ stored \in InitialItems(env)
  /\ overlap = FALSE
  /\ SettingsInit /\ ApiInit /\ HomeInit /\ rt = RtIdle /\ ScreenInit

ApiSpecInit ==
  /\ env \in Envs
  /\ stored = Missing
  /\ overlap = FALSE
  /\ SettingsInit /\ ApiInit /\ HomeInit /\ rt = RtIdle /\ ScreenInit

Init ==
  /\ Rest
  /\ SettingsInit /\ ApiInit /\ HomeInit /\ rt = RtIdle /\ ScreenInit

SettingsNext == SettingsCall \/ SettingsStep

\* callers that do not await one call before starting the next: a build with
\* nothing persisted, calls started while others are in flight, and storage
\* writes settling in any order
ConcurrentInit ==
  /\ env \in Envs
  /\ stored = Missing
  /\ overlap = TRUE
  /\ SettingsInit /\ ApiInit /\ HomeInit /\ rt = RtIdle /\ ScreenInit

ConcurrentNext ==
  \E s \in Slots :
    \/ \E p \in SettingsPartials : CallSaveSettings(s, p)
    \/ \E p \in ApiPartials : CallUpdateApiConfig(s, p)
    \/ CallToggleSimulationMode(s)
    \/ SetItemDone(s)
    \/ SetItemFail(s)

ConcurrentSpec == ConcurrentInit /\ [][ConcurrentNext]_vars

ChartsSpec == Init /\ [][ChartsNext]_vars

SettingsSpec == SettingsSpecInit /\ [][SettingsNext]_vars

ApiSpec == ApiSpecInit /\ [][ApiNext]_vars

HomeSpec == Init /\ [][HomeNext]_vars

UrlSpec == Init /\ [][RtNext]_vars

CallSpec == Init /\ [][CallNext]_vars

ConfigSpec == Init /\ [][ConfigNext]_vars

ScreenSpec == Init /\ [][ScreenNext]_vars

\* an app start: any build, any record left by an earlier run
SettingsOpsSpec == SettingsSpecInit /\ [][SettingsOpsNext]_vars

Next ==
  \/ SettingsNext \/ ApiNext \/ CallNext \/ ConfigNext \/ HomeNext \/ RtNext \/ ScreenNext
  \/ SettingsOpsNext \/ ConcurrentNext

Spec == Init /\ [][Next]_vars

----------------------------------------------------------------------------
(* Properties *)

\* the addresses the contract of setCustomBackendUrl calls valid: four decimal
\* octets of one to three digits, each 0..255, or the literal "localhost"
DottedQuadIp(ip) ==
  LET parts == Split(ip, ".")
  IN  /\ Len(parts) = 4
      /\ \A i \in 1..4 : /\ Len(parts[i]) \in 1..3
                         /\ AllDigits(parts[i])
                         /\ DigitsValue(parts[i], 10) <= 255

ValidBackendIp(ip) == DottedQuadIp(ip) \/ ip = Localhost

ExpectedBackendUrl(useHttps, ip, port) ==
  (IF useHttps THEN Https ELSE Http) \o <<":", "/", "/">> \o ip \o <<":">>
    \o NumberToString(port)

\* C1: whenever no Settings Store call is in flight and simulation mode is on
\* (both copies of the flag), getApiConfig().baseUrl is the loopback address.
C1_SimulationForcesLoopback ==
  ( /\ NoneInFlight
    /\ settings.simulationMode
    /\ "simulationMode" \in DOMAIN settings.api /\ settings.api.simulationMode )
  => getApiConfig(settings).baseUrl = LoopbackUrl

\* C2: a resolved toggleSimulationMode that enabled simulation returned the
\* loopback address; one that disabled it right after the toggle that enabled
\* it returned the URL that was in effect before simulation was enabled.
C2_ToggleRestoresPriorUrl ==
  (last.op = "toggleSimulationMode" /\ last.outcome = "resolved") =>
    IF ~last.preSimulationMode
      THEN last.ret.baseUrl = LoopbackUrl
      ELSE (last.prev.op = "toggleSimulationMode" /\ last.prev.outcome = "resolved")
             => last.ret.baseUrl = last.prev.preUrl

\* C3: the timestamp of the snapshot HomeScreen displays never decreases,
\* whatever load completes.
C3_DisplayedTimestampNeverDecreases ==
  [][home'.solisData >= home.solisData]_vars

\* C4: a request dispatched after an updateConfig carries x-api-key only if that
\* configuration sets apiKey, Authorization only if it sets authToken, and
\* then with the new values.
C4_HeadersFollowNewConfig ==
  \A i \in 1..Len(requests) :
    LET r == requests[i]
        c == configs[r.epoch]
    IN  r.epoch > 1 =>
          /\ "x-api-key" \in DOMAIN r.headers =>
               IsSet(c, "apiKey") /\ r.headers["x-api-key"] = c.apiKey
          /\ "Authorization" \in DOMAIN r.headers =>
               IsSet(c, "authToken") /\ r.headers["Authorization"] = Bearer(c.authToken)

\* C5: every request dispatched after an updateConfig targets the base URL of
\* the configuration that updateConfig was given.
C5_RequestTargetsNewBaseUrl ==
  \A i \in 1..Len(requests) :
    requests[i].epoch > 1 => requests[i].baseURL = configs[requests[i].epoch].baseUrl

C5_Witness ==
  \E i \in 1..Len(requests) :
    /\ requests[i].epoch > 1
    /\ requests[i].baseURL = NewUrl
    /\ configs[1].baseUrl # NewUrl

\* C6: setCustomBackendUrl(ip, port) with a valid ip is never rejected as
\* invalid, and when its storage write succeeds it returns, and the persisted
\* record holds, baseUrl = "<scheme>://<ip>:<port>" with the scheme of the
\* useHttps flag at the call (observed once the call has settled and before
\* the next one starts).
C6_SetCustomBackendUrlComposes ==
  (NoneInFlight /\ last.op = "setCustomBackendUrl" /\ ValidBackendIp(last.args.ip)) =>
    \/ /\ last.outcome = "resolved"
       /\ last.ret.baseUrl =
            ExpectedBackendUrl(last.preUseHttps, last.args.ip, last.args.port)
       /\ stored.kind = "json"
       /\ stored.value.api.baseUrl =
            ExpectedBackendUrl(last.preUseHttps, last.args.ip, last.args.port)
    \/ last.outcome = "rejected" /\ last.ret = "storage"

C6_Witness ==
  /\ NoneInFlight
  /\ last.op = "setCustomBackendUrl" /\ last.outcome = "resolved"
  /\ last.preUseHttps /\ last.args.ip = GoodIp /\ last.args.port = 8080
  /\ stored.value.api.baseUrl = UrlText(Https, GoodIp, 8080)

\* C7: setCustomBackendUrl with an ip that is neither a dotted quad nor
\* "localhost" is rejected, and memory and storage are as they were at the
\* call, no write having been issued.
C7_InvalidIpRejectedUnchanged ==
  (last.op = "setCustomBackendUrl" /\ ~ValidBackendIp(last.args.ip)) =>
    /\ last.outcome = "rejected"
    /\ last.ret = "Adresse IP invalide"
    /\ last.memorySame /\ last.storedSame /\ ~last.wrote

C7_Witness ==
  /\ last.op = "setCustomBackendUrl" /\ last.args.ip = BadOctetIp
  /\ last.outcome = "rejected" /\ last.prev.op = "setCustomBackendUrl"
  /\ stored.kind = "json"

\* C8: parseBackendUrl applied to the URL setCustomBackendUrl composed from an
\* accepted (ip, port) returns exactly {ip, port}.
C8_ParseRoundTrips ==
  rt.pc = "parsed" => rt.parsed = [ip |-> rt.ip, port |-> rt.port]

\* C9: a loadSettings that follows a resolved resetAllSettings returns the
\* computed default settings, and the persisted record is gone (observed once
\* the load has settled and before the next call starts).
C9_ResetThenLoadGivesDefaults ==
  ( /\ NoneInFlight
    /\ last.op = "loadSettings"
    /\ last.prev.op = "resetAllSettings" /\ last.prev.outcome = "resolved" )
  => /\ last.ret = getDefaultSettings(env)
     /\ stored = Missing

C9_Witness ==
  /\ NoneInFlight /\ stored = Missing
  /\ last.op = "loadSettings" /\ last.read = "missing"
  /\ last.prev.op = "resetAllSettings" /\ last.prev.outcome = "resolved"
  /\ last.prev.preUrl = UrlText(Http, GoodIp, 8080)
  /\ last.ret = getDefaultSettings(env)

\* C10: a loadSettings that found the persisted record missing or unparseable
\* returned the computed default settings.
C10_LoadFallsBackToDefaults ==
  (last.op = "loadSettings" /\ last.read \in {"missing", "corrupt"})
  => last.ret = getDefaultSettings(env)

\* C11: after loadSettings read a persisted record, every field the record
\* lacks has its default value in the settings returned, at the top level and
\* inside the nested connection configuration `api`.
C11_MissingFieldsGetDefaults ==
  ( /\ NoneInFlight
    /\ last.op = "loadSettings" /\ last.read = "json"
    /\ stored.kind = "json" )
  => LET record == stored.value
         defaults == getDefaultSettings(env)
     IN  /\ \A k \in DOMAIN defaults \ DOMAIN record :
              k \in DOMAIN last.ret /\ last.ret[k] = defaults[k]
         /\ "api" \in DOMAIN record =>
              \A k \in DOMAIN defaults.api \ DOMAIN record.api :
                k \in DOMAIN last.ret.api /\ last.ret.api[k] = defaults.api[k]

\* C12: testConnection never rejects: it resolves to TRUE exactly when
\* GET /health was answered with status 200, and to FALSE for any other
\* answer and when no answer came at all.
C12_TestConnectionNeverThrows ==
  \A i \in 1..Len(requests) :
    (requests[i].op = "testConnection" /\ replies[i] # Pending) =>
      /\ replies[i].outcome = "resolved"
      /\ replies[i].value =
           (replies[i].response.kind = "http" /\ replies[i].response.status = 200)

C12_Witness ==
  \E i, j \in 1..Len(requests) :
    /\ requests[i].op = "testConnection" /\ requests[j].op = "testConnection"
    /\ replies[i] # Pending /\ replies[j] # Pending
    /\ replies[i].value = TRUE
    /\ replies[j].value = FALSE /\ replies[j].response.kind = "none"

\* a settled get/post whose request was answered with an HTTP error status
HttpErrorReply(i) ==
  /\ requests[i].op # "testConnection" /\ replies[i] # Pending
  /\ replies[i].response.kind = "http"
  /\ ~(replies[i].response.status \in 200..299)

\* C13 as stated: an HTTP error response reaches the caller of get/post as the
\* rejection {status, message, error, timestamp} with status the HTTP status
\* and message the body's message field whenever the body has one, else the
\* transport error text.
C13_MessageFromBodyWhenPresent ==
  \A i \in 1..Len(requests) :
    HttpErrorReply(i) =>
      LET r == replies[i].response
      IN  /\ replies[i].outcome = "rejected"
          /\ DOMAIN replies[i].value = {"status", "message", "error", "timestamp"}
          /\ replies[i].value.status = r.status
          /\ replies[i].value.message =
               IF "message" \in DOMAIN r.data THEN r.data.message
               ELSE AxiosErrorMessage(r)

\* C13 amended: the message is the body's message field when the body has a
\* non-empty one, else the transport error text.
C13_MessageFromBodyWhenNonEmpty ==
  \A i \in 1..Len(requests) :
    HttpErrorReply(i) =>
      LET r == replies[i].response
      IN  /\ replies[i].outcome = "rejected"
          /\ DOMAIN replies[i].value = {"status", "message", "error", "timestamp"}
          /\ replies[i].value.status = r.status
          /\ replies[i].value.message =
               IF "message" \in DOMAIN r.data /\ r.data.message # "" THEN r.data.message
               ELSE AxiosErrorMessage(r)

C13_Witness ==
  \E i \in 1..Len(requests) :
    /\ HttpErrorReply(i) /\ requests[i].op = "getSolisData"
    /\ replies[i].value.status = 500 /\ replies[i].value.message = "boom"

\* C14: a get/post whose request got no HTTP response at all (refused, DNS
\* failure, timeout) rejects with the normalized error, its status 0.
C14_NoResponseIsStatusZero ==
  \A i \in 1..Len(requests) :
    ( /\ requests[i].op # "testConnection" /\ replies[i] # Pending
      /\ replies[i].response.kind = "none" )
    => /\ replies[i].outcome = "rejected"
       /\ DOMAIN replies[i].value = {"status", "message", "error", "timestamp"}
       /\ replies[i].value.status = 0

C14_Witness ==
  \E i \in 1..Len(requests) :
    /\ requests[i].op = "setAutomationMode" /\ replies[i] # Pending
    /\ replies[i].response = [kind |-> "none", message |-> "timeout exceeded"]
    /\ replies[i].outcome = "rejected"
    /\ replies[i].value.status = 0 /\ replies[i].value.message = "timeout exceeded"

\* a request that failed: no response, or a status outside 2xx
FailedRequest(i) ==
  /\ replies[i] # Pending
  /\ \/ replies[i].response.kind = "none"
     \/ ~(replies[i].response.status \in 200..299)

\* C15 as stated: every operation issues one request per invocation (none is
\* re-sent), and a failed request always reaches the caller as a rejection.
C15_EveryFailureRejects ==
  /\ Len(requests) = Len(replies)
  /\ \A i \in 1..Len(requests) : FailedRequest(i) => replies[i].outcome = "rejected"

\* C15 amended: one request per invocation (none is re-sent); a failed request
\* of an operation that goes through get/post reaches its caller as a
\* rejection, and a failed testConnection reaches its caller as FALSE.
C15_FailureReachesCaller ==
  /\ Len(requests) = Len(replies)
  /\ \A i \in 1..Len(requests) :
       FailedRequest(i) =>
         IF requests[i].op = "testConnection"
           THEN replies[i].outcome = "resolved" /\ replies[i].value = FALSE
           ELSE replies[i].outcome = "rejected"

C15_Witness ==
  /\ Len(requests) = 2
  /\ requests[1].op = "enableAutomation" /\ requests[2].op = "testConnection"
  /\ FailedRequest(1) /\ FailedRequest(2)
  /\ replies[1].outcome = "rejected" /\ replies[1].value.status = 404
  /\ replies[2].value = FALSE

\* C16: whatever the caller does to objects getConfig() returned, the
\* configuration the API Client holds is the one its constructor or the last
\* updateConfig was given, and that is what the next getConfig() copies.
C16_ConfigOnlyChangedByUpdateConfig ==
  config = configs[Len(configs)]

\* C17: while a save awaits its storage write, the item being written is the
\* complete in-memory record, which for saveSettings(partial) is the record
\* at the call with partial merged over it; a resolved saveSettings left that
\* record in storage; and a call whose storage write failed is rejected with
\* the storage error.
C17_SaveMergesWritesAndRethrows ==
  /\ \A s \in Slots :
       (calls[s] # Idle /\ calls[s].pc = "setItem") =>
         /\ calls[s].item = JSONStringify(settings)
         /\ calls[s].op = "saveSettings" =>
              settings = [k \in DOMAIN calls[s].pre \cup DOMAIN calls[s].args |->
                            IF k \in DOMAIN calls[s].args THEN calls[s].args[k]
                            ELSE calls[s].pre[k]]
  /\ (NoneInFlight /\ last.op = "saveSettings" /\ last.outcome = "resolved") =>
       stored = JSONStringify(settings)
  /\ last.writeFailed => last.outcome = "rejected" /\ last.ret = "storage"

C17_Witness ==
  /\ NoneInFlight
  /\ last.op = "toggleSimulationMode" /\ last.writeFailed /\ last.outcome = "rejected"
  /\ last.prev.op = "saveSettings" /\ last.prev.outcome = "resolved"
  /\ stored.kind = "json" /\ stored.value.theme = "dark"

\* the current the contract accepts, in tenths of an ampere
CurrentInRange(current) == current # NaN /\ current[1] >= 60 /\ current[1] <= 160

\* C18: a press of Confirm whose input does not read as a number within
\* 6..16 A issued no setChargingCurrent call and left isControlLoading as it
\* was; and once a saveIpConfiguration pressed with an empty or invalid IP has
\* run, the API Client has been given no configuration since the press.
C18_InvalidInputMakesNoCall ==
  /\ ~CurrentInRange(parseFloat(zscreen.pressed.input)) =>
       ~zscreen.pressed.called /\ ~zscreen.pressed.loadingChanged
  /\ ( /\ sscreen.pc = "idle"
       /\ \/ Trim(sscreen.pressed.newIp) = <<>>
          \/ ~ValidBackendIp(Trim(sscreen.pressed.newIp)) )
     => Len(configs) = sscreen.pressed.updates

C18_Witness ==
  /\ zscreen.pressed.input = <<"1", "7">> /\ zscreen.alert = "Invalid Value"
  /\ zscreen.sent = <<>> /\ ~zscreen.isControlLoading
  /\ sscreen.pressed.newIp = BadOctetIp /\ sscreen.alert = "Adresse IP invalide"
  /\ Len(configs) = 2 /\ sscreen.pressed.updates = 2

\* C19: when the Solis read or the Zaptec read of a loadData or
\* loadRealTimeData rejects, the load leaves solisData, zaptecStatus and
\* lastUpdate as they were and still clears its flags (isLoading and
\* isRefreshing for loadData, isRealTimeRefreshing for loadRealTimeData).
C19_RejectedLoadKeepsDisplay ==
  [][\A i \in 1..Len(loads) :
       (LoadDone(i) /\ ~(loads[i].solisOk /\ loads[i].zaptecOk)) =>
          /\ home'.solisData = home.solisData
          /\ home'.zaptecStatus = home.zaptecStatus
          /\ home'.lastUpdate = home.lastUpdate
          /\ loads[i].kind = "db" => ~home'.isLoading /\ ~home'.isRefreshing
          /\ loads[i].kind = "rt" => ~home'.isRealTimeRefreshing]_vars

\* a load failed while a snapshot was displayed, and nothing is left loading
C19_Witness ==
  /\ home.alerts = 1 /\ home.solisData > 0 /\ home.lastUpdate > 0
  /\ ~home.isLoading /\ ~home.isRefreshing /\ ~home.isRealTimeRefreshing
  /\ loads = <<>>

\* post differs from pre at most in api[field]
OnlyApiFieldSet(pre, post, field) ==
  /\ DOMAIN post = DOMAIN pre
  /\ \A f \in DOMAIN pre \ {"api"} : post[f] = pre[f]
  /\ DOMAIN post.api = DOMAIN pre.api \cup {field}
  /\ \A f \in DOMAIN pre.api \ {field} : post.api[f] = pre.api[f]

\* C20: a resetToDefaultUrl() that resolves has set api.baseUrl to the default
\* URL of the build/environment, and a resetToDefaultApiKey() that resolves has
\* set api.apiKey to the default key, whatever the field held; every other
\* field of the settings is as it was at the call, the record in storage is
\* the new settings, and the call returns the new api configuration.
C20_ResetSetsOnlyItsField ==
  [][\A s \in Slots :
       ( /\ calls[s].op \in {"resetToDefaultUrl", "resetToDefaultApiKey"}
         /\ calls'[s] = Idle /\ last'.outcome = "resolved" ) =>
         LET url == calls[s].op = "resetToDefaultUrl"
             field == IF url THEN "baseUrl" ELSE "apiKey"
             default == IF url THEN getDefaultApiConfig(env).baseUrl
                        ELSE getEnvVar(env, "API_KEY", <<>>)
         IN  /\ OnlyApiFieldSet(calls[s].pre, settings', field)
             /\ settings'.api[field] = default
             /\ stored' = JSONStringify(settings')
             /\ last'.ret = settings'.api]_vars

\* both resets resolved, one after the other, on a record that overrode both
\* fields
C20_Witness ==
  /\ NoneInFlight
  /\ last.op = "resetToDefaultUrl" /\ last.outcome = "resolved"
  /\ last.prev.op = "resetToDefaultApiKey" /\ last.prev.outcome = "resolved"
  /\ last.preUrl = UrlText(Http, Dotted(192, 168, 1, 50), 8080)
  /\ settings.api.baseUrl = ServerUrl /\ settings.api.apiKey = EnvKey
  /\ stored = JSONStringify(settings)

\* C21: parseBackendUrl always returns an {ip, port} pair, and for a text that
\* new URL cannot parse the pair is {ip: "192.168.0.108", port: 3000}.
C21_ParseNeverThrows ==
  rt.pc = "read" =>
    /\ DOMAIN rt.parsed = {"ip", "port"}
    /\ ~ParseUrl(rt.url).ok => rt.parsed = [ip |-> Dotted(192, 168, 0, 108), port |-> 3000]

C21_Witness ==
  /\ rt.pc = "read" /\ rt.url = Garbage
  /\ rt.parsed = [ip |-> Dotted(192, 168, 0, 108), port |-> 3000]

\* C22: whenever the Settings screen has mounted and none of its operations
\* is in progress, the configuration the API Client uses equals the Settings
\* Store's connection configuration.
C22_ClientConfigEqualsStoreConfig ==
  (sscreen.mounted /\ sscreen.pc = "idle" /\ NoneInFlight) =>
    config = getApiConfig(settings)

\* C23: whenever a Settings Store call has been made and none is in progress,
\* the persisted record is the in-memory settings, also when saveSettings /
\* updateApiConfig calls were started while others were in flight.
C23_StoredEqualsMemoryAtRest ==
  (NoneInFlight /\ ncalls > 0) => stored = JSONStringify(settings)

\* C24: a Settings Store call that rejected because its storage write failed
\* left the in-memory settings as they were when it was called.
C24_FailedSaveLeavesMemory ==
  (last.outcome = "rejected" /\ last.writeFailed) => last.memorySame

StoreCallPcs == {"saving", "resetting", "savingKey", "resettingKey"}

\* C25: the Settings screen hands the API Client a configuration only in the
\* continuation of a handler whose Settings Store call resolved; a handler
\* whose call rejected, at validation or at the storage write, leaves the API
\* Client's configuration and the displayed currentApiConfig as they were.
C25_UpdateConfigOnlyAfterSuccess ==
  [][ /\ configs' # configs =>
           /\ sscreen.pc \in StoreCallPcs /\ calls[1] = Idle
           /\ last.outcome = "resolved"
      /\ ( \/ sscreen.pc \in StoreCallPcs /\ sscreen'.pc = "idle" /\ last.outcome = "rejected"
           \/ last'.outcome = "rejected" /\ last' # last )
         => /\ config' = config /\ axios' = axios
            /\ sscreen'.currentApiConfig = sscreen.currentApiConfig ]_vars

\* a reset whose write failed, after a save that had updated the API Client
C25_Witness ==
  /\ sscreen.mounted /\ sscreen.pc = "idle" /\ NoneInFlight
  /\ last.op = "resetToDefaultUrl" /\ last.outcome = "rejected"
  /\ sscreen.alert = "Erreur lors de la reinitialisation"
  /\ Len(configs) = 2 /\ config = configs[2] /\ sscreen.currentApiConfig = config
  /\ config.baseUrl = UrlText(Http, GoodIp, 8080)

\* C26: whenever a Settings Store call has been made and none is in progress,
\* settings.simulationMode equals settings.api.simulationMode, in memory and
\* in the persisted record.
C26_SimulationFlagsAgree ==
  (NoneInFlight /\ ncalls > 0) =>
    /\ settings.simulationMode = settings.api.simulationMode
    /\ stored.kind = "json" =>
         stored.value.simulationMode = stored.value.api.simulationMode

\* ---------------------------------------------------------------------------
\* Objects handed out by getSettings() / getApiConfig() and what callers do
\* with them.  A held object is [kind, value, shares]: `shares` tells that the
\* object's `api` property is the very object this.settings.api (a spread
\* copies the top-level properties only).
\* ---------------------------------------------------------------------------
MaxHeld == 2

Holds(kind, value, shares) == [kind |-> kind, value |-> value, shares |-> shares]

\* return { ...this.settings };
CallGetSettings ==
  /\ Len(held) < MaxHeld
  /\ held' = Append(held, Holds("settings", settings, TRUE))
  /\ UNCHANGED <<settings, stored, calls, last, ncalls>>
  /\ UNCHANGED notSettings

\* return { ...this.settings.api };
CallGetApiConfig ==
  /\ Len(held) < MaxHeld
  /\ held' = Append(held, Holds("api", getApiConfig(settings), FALSE))
  /\ UNCHANGED <<settings, stored, calls, last, ncalls>>
  /\ UNCHANGED notSettings

\* the caller assigns a top-level property of a held object:
\* s.theme = ... on a getSettings() result, a.baseUrl = ... on a getApiConfig() result
MutateHeld(i) ==
  /\ i \in DOMAIN held
  /\ held' = [held EXCEPT ![i].value =
                IF held[i].kind = "settings" THEN [@ EXCEPT !.theme = "dark"]
                                             ELSE [@ EXCEPT !.baseUrl = ExtraUrl]]
  /\ held'[i] # held[i]
  /\ UNCHANGED <<settings, stored, calls, last, ncalls>>
  /\ UNCHANGED notSettings

\* the caller assigns a property of the nested object: s.api.baseUrl = ...
\* When s.api is this.settings.api, the assignment is seen through every
\* reference to that object.
MutateHeldApi(i) ==
  /\ i \in DOMAIN held
  /\ held[i].kind = "settings"
  /\ held[i].value.api.baseUrl # ExtraUrl
  /\ held' = [j \in DOMAIN held |->
                IF j = i \/ (held[i].shares /\ held[j].shares)
                  THEN [held[j] EXCEPT !.value.api.baseUrl = ExtraUrl]
                  ELSE held[j]]
  /\ settings' = IF held[i].shares THEN [settings EXCEPT !.api.baseUrl = ExtraUrl]
                                   ELSE settings
  /\ UNCHANGED <<stored, calls, last, ncalls>>
  /\ UNCHANGED notSettings

CopyNext ==
  \/ CallGetSettings
  \/ CallGetApiConfig
  \/ \E i \in 1..MaxHeld : MutateHeld(i)
  \/ \E i \in 1..MaxHeld : MutateHeldApi(i)
  \/ \E p \in SettingsPartials : CallSaveSettings(1, p)
  \/ \E p \in ApiPartials : CallUpdateApiConfig(1, p)
  \/ SetItemDone(1)

CopySpec == SettingsSpecInit /\ [][CopyNext]_vars

\* C27: a step in which a caller changes an object it got from getSettings()
\* or getApiConfig() -- a property of the object or of its nested api --
\* leaves the store's in-memory settings as they were.
C27_CallerMutationLeavesStore ==
  [][ (/\ Len(held') = Len(held)
       /\ \E i \in DOMAIN held : held'[i].value # held[i].value)
      => settings' = settings ]_vars

\* C28: in each useChartData hook, once none of its requests is in flight and
\* the most recently started one has succeeded, the data held is the response
\* for the current period and date, whatever order the responses came in.
C28_DataIsLatestResponse ==
  \A c \in ChartTypes :
    ( /\ ~\E f \in charts.fetches : f.chart = c
      /\ charts.hooks[c].latest = "ok" )
    => charts.hooks[c].data =
         [chart |-> c, period |-> charts.selectedPeriod,
          date |-> chartDate(charts.selectedPeriod, charts.selectedDate)]

\* C29: isRefreshing, set by handleRefresh, goes back to false only in a
\* step after which no chart fetch started by the refresh is still in flight.
C29_RefreshingUntilFetchesDone ==
  [][ (charts.isRefreshing /\ ~charts'.isRefreshing)
      => ~\E f \in charts'.fetches : f.by = "refresh" ]_vars

\* ---------------------------------------------------------------------------
\* The loading flags of SettingsScreen and HomeScreen.  One screen is used in
\* a run: the flags of one depend on nothing the other changes.  The backend
\* clock stands still: the flags do not depend on the snapshots' timestamps.
\* ---------------------------------------------------------------------------
SettingsUntouched == sscreen = SettingsScreenInitial /\ ncalls = 0

MountHomeAlone == SettingsUntouched /\ Mount
MountSettingsAlone == ~home.mounted /\ MountSettingsScreen
OpenIpModalMounted == sscreen.mounted /\ OpenIpModal

LoadingNext ==
  \/ MountSettingsAlone
  \/ \E ok \in BOOLEAN : GetItemDone(1, ok)
  \/ loadSettingsResume
  \* the backend starts in surplus mode
  \/ \E ok \in BOOLEAN : loadAutomationConfigDone(ok, "surplus")
  \/ testConnection
  \/ \E resp \in Responses : testConnectionResume(resp)
  \/ OpenIpModalMounted
  \/ saveIpConfiguration(GoodIp, Dec(8080))
  \/ saveIpResume
  \/ resetToDefault
  \/ OpenApiKeyModal
  \/ CloseApiKeyModal
  \/ saveApiKeyConfiguration(CustomKey)
  \/ resetApiKeyToDefault
  \/ \E h \in StoreHandlers : StoreCallResume(h)
  \/ SetItemDone(1)
  \/ SetItemFail(1)
  \/ openModeModal
  \/ \E mode \in AutomationModes : setSelectedMode(mode)
  \/ CloseModeModal
  \/ saveModeConfiguration
  \/ \E ok \in BOOLEAN : saveModeResume(ok)
  \* the backend now reports the mode that was saved
  \/ \E ok \in BOOLEAN : saveModeReloaded(ok, sscreen.selectedMode)
  \/ MountHomeAlone
  \/ PollTick
  \/ handleRefresh
  \/ handleRealTimeRefresh
  \/ \E i \in 1..MaxLoads, solisOk, zaptecOk \in BOOLEAN : ServerAnswer(i, solisOk, zaptecOk)
  \/ \E i \in 1..MaxLoads : LoadDone(i)

\* every awaited storage or backend call settles (each request is answered or
\* times out on its own), and the continuation of a settled await is run by
\* the event loop
LoadingFairness ==
  /\ WF_vars(\E ok \in BOOLEAN : GetItemDone(1, ok))
  /\ WF_vars(SetItemDone(1) \/ SetItemFail(1))
  /\ WF_vars(saveIpResume)
  /\ WF_vars(\E h \in StoreHandlers : StoreCallResume(h))
  /\ WF_vars(\E resp \in Responses : testConnectionResume(resp))
  /\ WF_vars(\E ok \in BOOLEAN : saveModeResume(ok))
  /\ WF_vars(\E ok \in BOOLEAN : saveModeReloaded(ok, sscreen.selectedMode))
  /\ \A i \in 1..MaxLoads :
       /\ WF_vars(\E solisOk, zaptecOk \in BOOLEAN : ServerAnswer(i, solisOk, zaptecOk))
       /\ WF_vars(LoadDone(i))

LoadingSpec == Init /\ [][LoadingNext]_vars /\ LoadingFairness

\* C30: whenever SettingsScreen.isLoading is true it becomes false again, and
\* on the mounted HomeScreen isLoading, isRefreshing and isRealTimeRefreshing
\* each become false again, provided the awaited calls settle.
C30_LoadingFlagsCleared ==
  /\ sscreen.isLoading ~> ~sscreen.isLoading
  /\ (home.mounted /\ home.isLoading) ~> ~home.isLoading
  /\ home.isRefreshing ~> ~home.isRefreshing
  /\ home.isRealTimeRefreshing ~> ~home.isRealTimeRefreshing

C30_Witness ==
  /\ sscreen.pc = "idle" /\ ~sscreen.isLoading
  /\ sscreen.isModeModalVisible /\ sscreen.alert = "error.message"


====
